---- MODULE Spec2Model ----
(***************************************************************************)
(* claude-top: the session store (database_schema.ClaudeDatabase) and the  *)
(* monitor that drives it (claude_monitor_db.ClaudeMonitorDB).             *)
(*                                                                         *)
(* Time is counted in ticks of half a second, so that the truncation of    *)
(* SQLite's CURRENT_TIMESTAMP (whole seconds, UTC) and of Python's         *)
(* int(total_seconds()) is visible.  datetime.now() is the naive local     *)
(* time: UTC plus the host's zone offset.                                  *)
(***************************************************************************)
EXTENDS Integers, Sequences, FiniteSets, TLC

VARIABLES
    now,              \* the host's clock, UTC, in ticks
    tz,               \* the host's zone offset, in seconds east of UTC
    projects,         \* table projects
    process_sessions, \* table process_sessions
    process_metrics,  \* table process_metrics
    process_tree,     \* table process_tree
    active_sessions,  \* ClaudeMonitorDB.active_sessions: pid -> session id, in insertion order
    project_cache,    \* ClaudeMonitorDB.project_cache: working_dir -> project id (0: no entry)
    closeCount,       \* history: per session id, the end_session calls that stamped it
    firstId,          \* history: per working_dir, the id its first resolution returned (0: none yet)
    last,             \* history: the last operation, its inputs and what it did
    cpu_histories,    \* ClaudeMonitor.cpu_histories: pid -> deque(maxlen=5) of CPU samples
    paused_pids,      \* ClaudeMonitor.paused_pids
    instance,         \* what the last parse_claude_process / determine_process_status returned
    appended,         \* history: per pid, every CPU sample appended to its history
    io_tracker,       \* ClaudeMonitor.io_tracker: pid -> the indicators of its last sampling
    io_totals,        \* ClaudeMonitor.io_totals: pid -> running synthetic I/O totals
    claude_processes, \* what the last ClaudeMonitor.find_claude_processes returned
    scan,             \* history: the processes the last scan met and what sampling them did
    adaptive_update_interval, \* PerformanceOptimizer.adaptive_update_interval
    update_times,     \* PerformanceOptimizer.metrics.update_times: deque(maxlen=100)
    cpu_usage,        \* PerformanceOptimizer.metrics.cpu_usage: deque(maxlen=50)
    memory_usage,     \* PerformanceOptimizer.metrics.memory_usage: deque(maxlen=50)
    is_throttled,     \* PerformanceOptimizer.is_throttled
    cache,            \* PerformanceOptimizer.cache: key -> value
    cache_timestamps, \* PerformanceOptimizer.cache_timestamps: key -> time
    clock,            \* time.time()
    calls,            \* history: the number of steps the optimizer and its clock have made
    reply,            \* history: the last call of the optimizer, its arguments and result
    set_log,          \* history: per key, its last cache_set and whether it was cleared since
    last_fired,       \* history: per priority, when should_update last returned True (0: never)
    background_tasks,   \* PerformanceOptimizer.background_tasks
    background_running, \* PerformanceOptimizer.background_running
    background_thread,  \* PerformanceOptimizer.background_thread: an index of threads (0: None)
    threads,          \* the worker threads made so far: where each is in _background_worker
    joining,          \* the main thread is inside background_thread.join(timeout=1.0)
    added,            \* history: the tasks passed to add_background_task, in order
    executed,         \* history: the tasks the workers have called, in order
    control,          \* history: the last of start/stop_background_processing called
                      \* ("stopping" while stop is inside join)
    wcalls,           \* history: the number of calls the main thread has made
    snapshot,         \* history: the process table the last discovery iterated over
    outcome,          \* what the last pause_resume_process / kill_process /
                      \* adjust_process_priority returned or raised
    alert_history,    \* ClaudeMonitor.alert_history: pid -> time of its last cpu and memory alert
    alerts,           \* what the last check_resource_alerts returned
    alert_log,        \* history: per pid and type, when an alert was last returned (0: never)
    alert_clock,      \* time.time() as check_resource_alerts reads it
    alive             \* history: the pids of the processes that are running

coreVars == <<cpu_histories, paused_pids, instance, appended>>

ioVars == <<io_tracker, io_totals, claude_processes, scan>>

perfVars == <<adaptive_update_interval, update_times, cpu_usage, memory_usage, is_throttled,
              cache, cache_timestamps, clock, calls, reply, set_log, last_fired>>

workerVars == <<background_tasks, background_running, background_thread, threads, joining,
                added, executed, control, wcalls>>

discVars == <<snapshot, outcome>>

alertVars == <<alert_history, alerts, alert_log, alert_clock>>

auxVars == <<workerVars, discVars, alertVars, alive>>

vars == <<now, tz, projects, process_sessions, process_metrics, process_tree,
          active_sessions, project_cache, closeCount, firstId, last, coreVars, ioVars,
          perfVars, auxVars>>

-----------------------------------------------------------------------------
(* Bounds of the model. *)

MaxPid == 2
MaxSessions == 2
MaxMetrics == 2
MaxTreeRows == 2
MaxTicks == 2
MaxFailAt == 1
MaxCloses == 2
MaxSnapshotRows == 3
MaxAppends == 6
MaxScanned == 4
MaxCalls == 5
MaxWorkerCalls == 5
MaxThreads == 2
MaxAdds == 3
MaxArgs == 2

MaxAlertTicks == 3

\* time.time() when the monitor is made, in seconds
StartOfAlerts == 1000

(* Units and sentinels. *)

NULL == -1
TicksPerSec == 2
SecsPerDay == 86400
SecsPerHour == 3600
TicksPerDay == SecsPerDay * TicksPerSec

Pids == 1..MaxPid
TzOffsets == {0, SecsPerHour}
CleanupDays == {0, 1}
FailPoints == 0..MaxFailAt

(* A working directory is modelled by working_dir.split('/'):              *)
(* "/a/x" is <<"", "a", "x">>, "/a/y/" is <<"", "a", "y", "">>,            *)
(* "" is <<"">> and "Unknown" is <<"Unknown">>.                            *)
EmptyDir == <<"">>
UnknownDir == <<"Unknown">>
Dirs == { <<"", "a", "x">>, <<"", "b", "x">>, <<"", "a", "y", "">>, UnknownDir, EmptyDir }
\* the working directories of the processes a poll cycle meets
PollDirs == { <<"", "a", "y", "">> }

(* What discover_process_tree finds under a monitored pid. *)
TreeShapes == {"none", "child"}

-----------------------------------------------------------------------------
(* Clocks. *)

\* SQLite CURRENT_TIMESTAMP / datetime('now'): UTC, whole seconds.
CURRENT_TIMESTAMP(t) == (t \div TicksPerSec) * TicksPerSec

\* Python datetime.now(): naive local time, sub-second resolution.
datetime_now(t, zone) == t + zone * TicksPerSec

\* Python int(x) of a quotient n/d, d > 0: truncation toward zero.
IntTrunc(n, d) == IF n >= 0 THEN n \div d ELSE 0 - ((0 - n) \div d)

\* SQLite datetime text "YYYY-MM-DD HH:MM:SS" and date text "YYYY-MM-DD".
DateTimeText(t) == <<t \div TicksPerDay, (t % TicksPerDay) \div TicksPerSec>>
DateText(t) == <<t \div TicksPerDay>>

-----------------------------------------------------------------------------
(* Sequence helpers. *)

SetMin(S) == CHOOSE x \in S : \A y \in S : x <= y

RECURSIVE SortedSeq(_)
SortedSeq(S) == IF S = {} THEN <<>>
                ELSE LET m == SetMin(S) IN <<m>> \o SortedSeq(S \ {m})

Orders(S) == { f \in [1..Cardinality(S) -> S] : \A i, j \in 1..Cardinality(S) : f[i] = f[j] => i = j }

Count(seq, x) == Cardinality({ i \in 1..Len(seq) : seq[i] = x })

(* dict helpers for active_sessions, a sequence of [pid, sid] in insertion order *)
ActivePids(active) == { active[i].pid : i \in 1..Len(active) }
SidOf(active, pid) == active[CHOOSE i \in 1..Len(active) : active[i].pid = pid].sid
DelPid(active, pid) == SelectSeq(active, LAMBDA e : e.pid # pid)

\* F applied to the value of x: x is evaluated once
Bind(x, F(_)) == CHOOSE y \in { F(v) : v \in {x} } : TRUE

-----------------------------------------------------------------------------
(* The running handler.  Every store and monitor operation maps a record   *)
(* st to a record: the four tables, the monitor's two maps, the clock, and *)
(* the handler's control state.  ops counts the store calls the handler    *)
(* has made; the call numbered failAt raises sqlite3.Error (0: none does). *)
(* Every store method opens its own connection and commits once at its     *)
(* end, so a call that raises leaves the tables as they were.  Once        *)
(* raised is set the exception is propagating: nothing more runs until a   *)
(* handler catches it.                                                     *)

Fails(st) == st.ops + 1 = st.failAt
Raise(st) == [st EXCEPT !.ops = @ + 1, !.raised = TRUE]

\* INTEGER PRIMARY KEY AUTOINCREMENT: one more than the greatest id in use.
NextId(rows) == IF rows = <<>> THEN 1
                ELSE 1 + (CHOOSE m \in { rows[i].id : i \in 1..Len(rows) } :
                             \A i \in 1..Len(rows) : rows[i].id <= m)

RowsWithId(rows, id) == { i \in 1..Len(rows) : rows[i].id = id }

(* ---- ClaudeDatabase.get_or_create_project ---- *)

Truthy(working_dir) == working_dir # EmptyDir /\ working_dir # UnknownDir

\* os.path.basename, falling back to the parent segment, else 'unknown'
project_name(working_dir) ==
    IF Truthy(working_dir)
    THEN IF working_dir[Len(working_dir)] # ""
         THEN working_dir[Len(working_dir)]
         ELSE IF Len(working_dir) > 1 THEN working_dir[Len(working_dir) - 1] ELSE "root"
    ELSE "unknown"

project_path(working_dir) == IF Truthy(working_dir) THEN working_dir ELSE UnknownDir

\* SELECT id FROM projects WHERE path = ? OR name = ?, fetchone(): the row's index, 0 for none
SelectProject(rows, path, name) ==
    LET hit == { i \in 1..Len(rows) : rows[i].path = path \/ rows[i].name = name }
    IN IF hit = {} THEN 0 ELSE SetMin(hit)

\* a slip that returns cursor.lastrowid of the fresh connection for a row that was found
ExistingProjectId_lastrowid(row) == 0

\* project_id = result[0]
ExistingProjectId(row) == row.id

db_get_or_create_project(st, working_dir) ==
    IF st.raised THEN st
    ELSE IF Fails(st) THEN Raise(st)
    ELSE LET name == project_name(working_dir)
             path == project_path(working_dir)
             i == SelectProject(st.projects, path, name)
             newid == NextId(st.projects)
         IN IF i # 0
            THEN [st EXCEPT !.ops = @ + 1,
                            !.projects[i].last_seen = CURRENT_TIMESTAMP(st.now),
                            !.ret = ExistingProjectId(st.projects[i])]
            ELSE IF \E j \in 1..Len(st.projects) : st.projects[j].name = name
                 THEN Raise(st)      \* name TEXT UNIQUE: sqlite3.IntegrityError
                 ELSE [st EXCEPT !.ops = @ + 1,
                                 !.projects = Append(@, [id |-> newid, name |-> name, path |-> path,
                                                         created_at |-> CURRENT_TIMESTAMP(st.now),
                                                         last_seen |-> CURRENT_TIMESTAMP(st.now)]),
                                 !.ret = newid]

(* ---- ClaudeDatabase.start_session ---- *)

HasOpenSession(rows, pid) == \E i \in 1..Len(rows) : rows[i].pid = pid /\ rows[i].end_time = NULL

db_start_session(st, pid, project_id) ==
    IF st.raised THEN st
    ELSE IF Fails(st) THEN Raise(st)
    ELSE LET id == NextId(st.sessions)
         IN [st EXCEPT !.ops = @ + 1,
                       !.sessions = Append(@, [id |-> id, pid |-> pid, project_id |-> project_id,
                                               start_time |-> datetime_now(st.now, st.tz),
                                               end_time |-> NULL, duration_seconds |-> NULL,
                                               status |-> "running"]),
                       !.closeCount = Append(@, 0),
                       !.ret = id]

(* ---- ClaudeDatabase.end_session ---- *)

\* the UPDATE of end_session: no condition on end_time, it stamps whatever row has the id.
\* start_time is the isoformat text datetime.now() was stored as; fromisoformat reads it back exactly.
StampEnded(row, t, zone) ==
    [row EXCEPT !.end_time = CURRENT_TIMESTAMP(t),
                !.duration_seconds = IntTrunc(datetime_now(t, zone) - row.start_time, TicksPerSec),
                !.status = "ended"]

db_end_session(st, session_id) ==
    IF st.raised THEN st
    ELSE IF Fails(st) THEN Raise(st)
    ELSE LET hit == RowsWithId(st.sessions, session_id)
         IN IF hit = {} THEN [st EXCEPT !.ops = @ + 1]
            ELSE LET i == SetMin(hit)
                 IN [st EXCEPT !.ops = @ + 1,
                               !.sessions[i] = StampEnded(@, st.now, st.tz),
                               !.closeCount[i] = @ + 1]

(* ---- ClaudeDatabase.record_metrics ---- *)

db_record_metrics(st, session_id) ==
    IF st.raised THEN st
    ELSE IF Fails(st) THEN Raise(st)
    ELSE [st EXCEPT !.ops = @ + 1,
                    !.metrics = Append(@, [session_id |-> session_id,
                                           timestamp |-> CURRENT_TIMESTAMP(st.now)])]

(* ---- ClaudeDatabase.record_process_tree ---- *)

\* DELETE ... WHERE session_id = ? AND timestamp = date('now'): text equality of a
\* stored datetime with a date
TreeRowCleared(row, session_id, t) ==
    row.session_id = session_id /\ DateTimeText(row.timestamp) = DateText(t)

RECURSIVE insert_node(_, _, _, _, _)
RECURSIVE insert_children(_, _, _, _, _, _)
insert_node(rows, session_id, node, depth, t) ==
    insert_children(Append(rows, [session_id |-> session_id, pid |-> node.pid,
                                  parent_pid |-> node.parent_pid, depth |-> depth,
                                  timestamp |-> CURRENT_TIMESTAMP(t)]),
                    session_id, node.children, 1, depth + 1, t)
insert_children(rows, session_id, children, k, depth, t) ==
    IF k > Len(children) THEN rows
    ELSE insert_children(insert_node(rows, session_id, children[k], depth, t),
                         session_id, children, k + 1, depth, t)

RECURSIVE insert_nodes(_, _, _, _, _)
insert_nodes(rows, session_id, tree_nodes, k, t) ==
    IF k > Len(tree_nodes) THEN rows
    ELSE insert_nodes(insert_node(rows, session_id, tree_nodes[k], 0, t),
                      session_id, tree_nodes, k + 1, t)

db_record_process_tree(st, session_id, tree_nodes) ==
    IF st.raised THEN st
    ELSE IF Fails(st) THEN Raise(st)
    ELSE LET kept == SelectSeq(st.tree, LAMBDA r : ~TreeRowCleared(r, session_id, st.now))
         IN [st EXCEPT !.ops = @ + 1,
                       !.tree = insert_nodes(kept, session_id, tree_nodes, 1, st.now)]

(* ---- ClaudeDatabase.cleanup_old_data ---- *)

\* a cutoff that leaves the '-N days' modifier out
Cutoff_now(t, days) == CURRENT_TIMESTAMP(t)

\* datetime('now', '-N days')
Cutoff(t, days) == CURRENT_TIMESTAMP(t) - days * TicksPerDay

\* a cleanup that also purges the sessions that started before the cutoff
CleanupSessions_purge(rows, cutoff) ==
    SelectSeq(rows, LAMBDA r : ~(r.start_time < cutoff))

\* cleanup_old_data issues no statement on process_sessions
CleanupSessions(rows, cutoff) == rows

db_cleanup_old_data(st, days) ==
    IF st.raised THEN st
    ELSE IF Fails(st) THEN Raise(st)
    ELSE LET cutoff == Cutoff(st.now, days)
         IN [st EXCEPT !.ops = @ + 1,
                       !.metrics = SelectSeq(@, LAMBDA r : ~(r.timestamp < cutoff)),
                       !.tree = SelectSeq(@, LAMBDA r : ~(r.timestamp < cutoff)),
                       !.sessions = CleanupSessions(@, cutoff)]


-----------------------------------------------------------------------------
(* ClaudeMonitorDB *)

enable_database_logging == TRUE
enable_tree_tracking == TRUE

(* ---- ClaudeMonitorDB.get_or_create_project ---- *)

monitor_get_or_create_project(st, working_dir) ==
    IF st.raised THEN st
    ELSE IF st.cache[working_dir] # 0
         THEN [st EXCEPT !.ret = st.cache[working_dir]]
         ELSE Bind(db_get_or_create_project(st, working_dir),
                   LAMBDA s : IF s.raised THEN s ELSE [s EXCEPT !.cache[working_dir] = s.ret])

(* ---- ProcessTreeTracker.discover_process_tree, max_depth = 2 ---- *)

ProcessNode(pid, parent_pid, children) ==
    [pid |-> pid, parent_pid |-> parent_pid, children |-> children]

\* the pid of the one child process a "child" shape gives root_pid
ChildPid(root_pid) == root_pid + MaxPid

\* info.get('ppid') of a monitored process: its parent (the shell that started it) is
\* a process outside the tree, pid 0 here
ppid(root_pid) == 0

\* None (psutil.NoSuchProcess) is the empty sequence, a tree is a sequence of one root
discover_process_tree(root_pid, shape) ==
    IF shape = "none" THEN <<>>
    ELSE IF shape = "leaf" THEN << ProcessNode(root_pid, ppid(root_pid), <<>>) >>
    ELSE IF shape = "child"
    THEN << ProcessNode(root_pid, ppid(root_pid),
                        << ProcessNode(ChildPid(root_pid), root_pid, <<>>) >>) >>
    ELSE << ProcessNode(root_pid, ppid(root_pid),
                        << ProcessNode(ChildPid(root_pid), root_pid,
                                       << ProcessNode(ChildPid(ChildPid(root_pid)),
                                                      ChildPid(root_pid), <<>>) >>) >>) >>

(* ---- ClaudeMonitorDB.convert_tree_to_db_nodes ---- *)

RECURSIVE flatten_tree(_)
RECURSIVE flatten_children(_, _)
flatten_tree(process_node) ==
    << ProcessNode(process_node.pid, process_node.parent_pid, <<>>) >>
        \o flatten_children(process_node.children, 1)
flatten_children(children, k) ==
    IF k > Len(children) THEN <<>>
    ELSE flatten_tree(children[k]) \o flatten_children(children, k + 1)

convert_tree_to_db_nodes(node) == flatten_tree(node)

(* ---- ClaudeMonitorDB.record_process_tree: every exception is swallowed ---- *)

monitor_record_process_tree(st, root_pid, session_id, shape) ==
    IF st.raised THEN st
    ELSE Bind(discover_process_tree(root_pid, shape),
              LAMBDA tree :
                IF tree = <<>> THEN st
                ELSE [db_record_process_tree(st, session_id, convert_tree_to_db_nodes(tree[1]))
                        EXCEPT !.raised = FALSE])

(* ---- ClaudeMonitorDB.find_claude_processes ---- *)

\* for pid in ended_pids: end_session, del active_sessions[pid]
RECURSIVE EndLoop(_, _, _)
EndLoop(st, order, k) ==
    IF k > Len(order) \/ st.raised THEN st
    ELSE Bind(db_end_session(st, SidOf(st.active, order[k])),
              LAMBDA s : IF s.raised THEN s
                         ELSE Bind([s EXCEPT !.active = DelPid(@, order[k])],
                                   LAMBDA t : EndLoop(t, order, k + 1)))

\* if instance.pid not in self.active_sessions: resolve the project, start a session
StartIfNew(st, inst) ==
    IF st.raised \/ inst.pid \in ActivePids(st.active) THEN st
    ELSE Bind(monitor_get_or_create_project(st, inst.working_dir),
              LAMBDA p : Bind(db_start_session(p, inst.pid, p.ret),
                              LAMBDA s : IF s.raised THEN s
                                         ELSE [s EXCEPT !.active =
                                                 Append(@, [pid |-> inst.pid, sid |-> s.ret])]))

\* record the metrics of the instance, then its process tree
RecordInstance(st, inst) ==
    IF st.raised THEN st
    ELSE Bind(db_record_metrics(st, SidOf(st.active, inst.pid)),
              LAMBDA b : IF b.raised \/ ~enable_tree_tracking THEN b
                         ELSE monitor_record_process_tree(b, inst.pid, SidOf(b.active, inst.pid),
                                                          inst.tree))

RECURSIVE InstanceLoop(_, _, _)
InstanceLoop(st, instances, k) ==
    IF k > Len(instances) \/ st.raised THEN st
    ELSE Bind(StartIfNew(st, instances[k]),
              LAMBDA a : Bind(RecordInstance(a, instances[k]),
                              LAMBDA c : InstanceLoop(c, instances, k + 1)))

\* instances: what ClaudeMonitor.find_claude_processes returned, in process_iter order;
\* order: the order in which the set ended_pids is iterated
find_claude_processes(st, instances, order) ==
    IF ~enable_database_logging THEN st
    ELSE Bind(EndLoop(st, order, 1), LAMBDA s : InstanceLoop(s, instances, 1))

(* ---- ClaudeMonitorDB.shutdown ---- *)

RECURSIVE ShutdownLoop(_, _, _)
ShutdownLoop(st, items, k) ==
    IF k > Len(items) \/ st.raised THEN st
    ELSE Bind(db_end_session(st, items[k].sid), LAMBDA s : ShutdownLoop(s, items, k + 1))

shutdown(st) ==
    Bind(ShutdownLoop(st, st.active, 1),
         LAMBDA s : IF s.raised THEN s ELSE [s EXCEPT !.active = <<>>])

(* ---- ClaudeMonitorDB.cleanup_database ---- *)

cleanup_database(st, days) == db_cleanup_old_data(st, days)

-----------------------------------------------------------------------------
(* ClaudeMonitor (claude_top_core): CPU histories and the status classifier.
   A CPU percentage is counted in tenths of a percent (psutil rounds cpu_percent to
   one decimal), and avg_cpu and recent_avg are compared with their thresholds as
   exact quotients: sum / len > 5.0 is sum > 50 * len in tenths. *)

\* deque(maxlen=5)
maxlen == 5

\* the thresholds of determine_process_status, in tenths of a percent
RunningAvg == 50
IdleRecentAvg == 5
ActivitySample == 30
MinimalRecentCpu == 2
MinimalRecentSample == 5

\* the number of samples recent_samples = cpu_samples[-3:] keeps
RecentLen == 3

RECURSIVE Sum(_)
Sum(seq) == IF seq = <<>> THEN 0 ELSE seq[1] + Sum(Tail(seq))

SeqMax(seq) == CHOOSE m \in { seq[k] : k \in 1..Len(seq) } : \A k \in 1..Len(seq) : seq[k] <= m

\* seq[-n:]
LastN(seq, n) == IF Len(seq) <= n THEN seq ELSE SubSeq(seq, Len(seq) - n + 1, Len(seq))

\* seq[:-n]
AllButLastN(seq, n) == IF Len(seq) <= n THEN <<>> ELSE SubSeq(seq, 1, Len(seq) - n)

\* deque.append with maxlen: a full deque drops its newest item instead of its oldest
deque_append_keepOldest(d, x) == IF Len(d) >= maxlen THEN d ELSE Append(d, x)

\* deque.append with maxlen: a full deque drops the item at its left end
deque_append(d, x) == LastN(Append(d, x), maxlen)

\* paused when only the manual-pause set is consulted
IsPaused_manualOnly(paused, pid, sys_status) == pid \in paused

\* pid in self.paused_pids, or proc.status() == 'stopped'
IsPaused(paused, pid, sys_status) == pid \in paused \/ sys_status = "stopped"

\* actively processing when the average of the last three samples is taken
ActivelyProcessing_recent(cpu_samples) ==
    Sum(LastN(cpu_samples, RecentLen)) > RunningAvg * Len(LastN(cpu_samples, RecentLen))

\* avg_cpu > 5.0, avg_cpu = sum(cpu_samples) / len(cpu_samples)
ActivelyProcessing(cpu_samples) == Sum(cpu_samples) > RunningAvg * Len(cpu_samples)

\* recent_avg < 0.5, recent_avg = sum(recent_samples) / len(recent_samples)
NowIdle(recent_samples) == Sum(recent_samples) < IdleRecentAvg * Len(recent_samples)

\* had_activity = any(sample > 3.0 for sample in cpu_samples[:-2])
HadActivity(cpu_samples) ==
    \E k \in 1..Len(AllButLastN(cpu_samples, 2)) : cpu_samples[k] > ActivitySample

\* minimal activity when only samples above 0.5 count
MinimalActivity_samplesOnly(recent_cpu, recent_samples) ==
    \E k \in 1..Len(recent_samples) : recent_samples[k] > MinimalRecentSample

\* recent_cpu > 0.2 or any(s > 0.5 for s in recent_samples)
MinimalActivity(recent_cpu, recent_samples) ==
    \/ recent_cpu > MinimalRecentCpu
    \/ \E k \in 1..Len(recent_samples) : recent_samples[k] > MinimalRecentSample

\* the analysis of a history of at least 3 samples
analyze_cpu_history(cpu_samples) ==
    LET max_cpu == SeqMax(cpu_samples)
        recent_cpu == cpu_samples[Len(cpu_samples)]
        recent_samples == LastN(cpu_samples, RecentLen)
    IN IF ActivelyProcessing(cpu_samples) THEN "running"
       ELSE IF NowIdle(recent_samples)
       THEN IF HadActivity(cpu_samples) /\ max_cpu > ActivitySample THEN "waiting"
            ELSE IF MinimalActivity(recent_cpu, recent_samples) THEN "waiting"
            ELSE "idle"
       ELSE "running"

\* ClaudeMonitor.determine_process_status; sys_status is what proc.status() gives,
\* "gone" when it raises psutil.NoSuchProcess and "denied" when it raises
\* psutil.AccessDenied (the result is then "raised")
determine_process_status(paused, pid, sys_status, cpu_samples) ==
    IF pid \in paused THEN "paused"
    ELSE IF sys_status \in {"gone", "denied"} THEN "raised"
    ELSE IF IsPaused(paused, pid, sys_status) THEN "paused"
    ELSE IF Len(cpu_samples) >= RecentLen THEN analyze_cpu_history(cpu_samples)
    ELSE "running"

(* ClaudeMonitor: the synthetic I/O statistics, and the scan of the process table.
   Byte counts are integers; proc.cpu_percent() is in tenths of a percent, so
   cpu_factor = max(1, cpu_percent / 10) is Max(100, tenths) / 100. *)

Max(a, b) == IF a >= b THEN a ELSE b
Abs(a) == IF a >= 0 THEN a ELSE 0 - a

\* a dict: a function whose domain is the set of its keys
EmptyMap == [p \in {} |-> 0]
Put(map, key, value) == [p \in DOMAIN map \cup {key} |-> IF p = key THEN value ELSE map[p]]

\* the defaults get_activity_indicators starts from
NoIndicators ==
    [memory_usage |-> 0, open_files |-> 0, network_connections |-> 0, cpu_percent |-> 0]

\* what psutil shows of a process: rss in bytes, the numbers of open files and of
\* connections, the CPU percentage
Quiet ==
    [memory_usage |-> 1000, open_files |-> 0, network_connections |-> 0, cpu_percent |-> 0]
Busy ==
    [memory_usage |-> 2000, open_files |-> 1, network_connections |-> 1, cpu_percent |-> 200]
Indicators == {Quiet, Busy}

\* how sampling a process goes: "ok"; "nosuch" when the process vanishes while its
\* indicators are read (psutil.NoSuchProcess); "denied" when reading them raises
\* psutil.AccessDenied
Samplings == {"ok", "nosuch", "denied"}

\* ClaudeMonitor.get_activity_indicators, for a sampling that does not raise
get_activity_indicators(sampling, indicators) ==
    IF sampling = "nosuch" THEN NoIndicators ELSE indicators

ZeroStats ==
    [net_bytes_sent |-> 0, net_bytes_recv |-> 0, net_bytes_total |-> 0,
     disk_total_bytes |-> 0, disk_current_bytes |-> 0, connections_count |-> 0]

ZeroTotals == [total_net_sent |-> 0, total_net_recv |-> 0, total_disk |-> 0]

\* estimated_write + estimated_read
current_disk_io(current_indicators, prev_indicators) ==
    Max(0, (current_indicators.memory_usage - prev_indicators.memory_usage) \div 10)
    + Abs(current_indicators.open_files - prev_indicators.open_files) * 1024

\* conn_count * 1024 * cpu_factor, in hundredths of a byte
base_net_activity(current_indicators) ==
    current_indicators.network_connections * 1024 * Max(100, current_indicators.cpu_percent)

\* int(base_net_activity * 0.6) and int(base_net_activity * 0.4)
current_net_sent(current_indicators) == (base_net_activity(current_indicators) * 6) \div 1000
current_net_recv(current_indicators) == (base_net_activity(current_indicators) * 4) \div 1000

\* the statistics of a process io_tracker holds no indicators of
first_sighting_stats_estimated(current_indicators) ==
    [ZeroStats EXCEPT !.net_bytes_sent = current_net_sent(current_indicators),
                      !.net_bytes_total = current_net_sent(current_indicators),
                      !.connections_count = current_indicators.network_connections]
first_sighting_stats(current_indicators) ==
    [ZeroStats EXCEPT !.connections_count = current_indicators.network_connections]

\* the io_totals entry after the estimates of the cycle are added
updated_totals(totals, current_indicators, prev_indicators) ==
    [total_net_sent |-> totals.total_net_sent + current_net_sent(current_indicators),
     total_net_recv |-> totals.total_net_recv + current_net_recv(current_indicators),
     total_disk |-> totals.total_disk + current_disk_io(current_indicators, prev_indicators)]

\* the statistics of a process io_tracker holds indicators of
later_sighting_stats(totals, current_indicators, prev_indicators) ==
    [net_bytes_sent |-> current_net_sent(current_indicators),
     net_bytes_recv |-> current_net_recv(current_indicators),
     net_bytes_total |-> totals.total_net_sent + totals.total_net_recv,
     disk_total_bytes |-> totals.total_disk,
     disk_current_bytes |-> current_disk_io(current_indicators, prev_indicators),
     connections_count |-> current_indicators.network_connections]

\* ClaudeMonitor.get_io_stats: the new io_tracker and io_totals and the statistics
\* returned; an exception (sampling "denied") leaves both maps alone and returns zeros
get_io_stats(tracker, totals, pid, sampling, indicators) ==
    IF sampling = "denied" THEN [tracker |-> tracker, totals |-> totals, stats |-> ZeroStats]
    ELSE
        LET current_indicators == get_activity_indicators(sampling, indicators)
            old == IF pid \in DOMAIN totals THEN totals[pid] ELSE ZeroTotals
        IN  IF pid \in DOMAIN tracker
            THEN LET new == updated_totals(old, current_indicators, tracker[pid])
                 IN  [tracker |-> Put(tracker, pid, current_indicators),
                      totals |-> Put(totals, pid, new),
                      stats |-> later_sighting_stats(new, current_indicators, tracker[pid])]
            ELSE [tracker |-> Put(tracker, pid, current_indicators),
                  totals |-> Put(totals, pid, old),
                  stats |-> first_sighting_stats(current_indicators)]

NoInstance ==
    [pid |-> 0, sys_status |-> "", status |-> "", cpu_history |-> <<>>, io |-> ZeroStats]

\* the state of a ClaudeMonitor a scan works on
Monitor(histories, samples, tracker, totals) ==
    [cpu_histories |-> histories, appended |-> samples, io_tracker |-> tracker,
     io_totals |-> totals]

\* ClaudeMonitor.parse_claude_process: the sample is appended before the status is
\* determined and the statistics are taken; any exception makes the result None
parse_claude_process(m, paused, proc) ==
    LET pid == proc.pid
        current_cpu == proc.indicators.cpu_percent
        history == deque_append(m.cpu_histories[pid], current_cpu)
        m1 == [m EXCEPT !.cpu_histories[pid] = history,
                        !.appended[pid] = Append(@, current_cpu)]
        status == determine_process_status(paused, pid, proc.sys_status, history)
    IN  IF status = "raised" THEN [m |-> m1, instance |-> NoInstance]
        ELSE LET io == get_io_stats(m.io_tracker, m.io_totals, pid, proc.sampling,
                                    proc.indicators)
             IN  [m |-> [m1 EXCEPT !.io_tracker = io.tracker, !.io_totals = io.totals],
                  instance |-> [pid |-> pid, sys_status |-> proc.sys_status,
                                status |-> status, cpu_history |-> history,
                                io |-> io.stats]]

\* the process the loop of find_claude_processes turns to after one that gave no
\* instance: the next of the n processes
next_after_failure_abort(k, n) == n + 1
next_after_failure(k, n) == k + 1

\* ClaudeMonitor.find_claude_processes from the k-th of the processes psutil iterates
\* over: the monitor it leaves and the instances it returns
RECURSIVE find_claude_processes_from(_, _, _, _, _)
find_claude_processes_from(m, paused, procs, k, found) ==
    IF k > Len(procs) THEN [m |-> m, instances |-> found]
    ELSE LET r == parse_claude_process(m, paused, procs[k])
         IN  IF r.instance = NoInstance
             THEN find_claude_processes_from(r.m, paused, procs,
                                             next_after_failure(k, Len(procs)), found)
             ELSE find_claude_processes_from(r.m, paused, procs, k + 1,
                                             Append(found, r.instance))

core_find_claude_processes(m, paused, procs) ==
    find_claude_processes_from(m, paused, procs, 1, <<>>)

\* a new ClaudeMonitor
CoreInit ==
    /\ cpu_histories = [p \in Pids |-> <<>>]
    /\ paused_pids = {}
    /\ instance = NoInstance
    /\ appended = [p \in Pids |-> <<>>]
    /\ io_tracker = EmptyMap
    /\ io_totals = EmptyMap
    /\ claude_processes = <<>>
    /\ scan = <<>>

-----------------------------------------------------------------------------
(* PerformanceOptimizer.  Times, durations and intervals are in microseconds; within the
   bounds of the model every product by 1.2, 0.9, 1.5 and 0.8 is a whole number of
   microseconds.  CPU is in percent and memory in MB.  A key of the cache is the
   sequence of its characters. *)

\* __init__
InitialInterval == 1000000
min_update_interval == 100000
max_update_interval == 5000000
cache_ttl == 2000000
throttle_cpu_threshold == 80
throttle_memory_threshold == 1000

\* deque(maxlen=100) of update_times, deque(maxlen=50) of cpu_usage and memory_usage
update_times_maxlen == 100
usage_maxlen == 50

Priorities == {"critical", "high", "medium", "low", "background"}

update_priorities(priority) ==
    CASE priority = "critical" -> 100000
      [] priority = "high" -> 500000
      [] priority = "medium" -> 1000000
      [] priority = "low" -> 2000000
      [] priority = "background" -> 5000000

\* the thresholds of _adjust_update_interval: the samples it needs, and the average
\* update times above and below which it adjusts
MinSamples == 5
SlowUpdate == 500000
FastUpdate == 100000

\* the thresholds of reduce_update_frequency_on_idle
IdleLong == 30000000
IdleShort == 5000000

\* the number of samples recent_cpu and recent_memory keep
RecentUsage == 5

Min(a, b) == IF a <= b THEN a ELSE b

\* deque(maxlen=n).append
bounded_append(deque, x, n) ==
    IF Len(deque) < n THEN Append(deque, x) ELSE Append(Tail(deque), x)

\* min(interval * num / den, max_update_interval)
grow_uncapped(interval, num, den) == (interval * num) \div den
grow(interval, num, den) == Min((interval * num) \div den, max_update_interval)

\* max(interval * num / den, min_update_interval)
shrink(interval, num, den) == Max((interval * num) \div den, min_update_interval)

\* _adjust_update_interval: whether there are samples enough to adjust on
enough_samples_any(times) == TRUE
enough_samples(times) == Len(times) >= MinSamples

\* PerformanceOptimizer._adjust_update_interval: avg_update_time > 0.5 is
\* sum > 0.5 * len, and avg_update_time < 0.1 is sum < 0.1 * len
adjust_update_interval(interval, times) ==
    IF ~enough_samples(times) THEN interval
    ELSE IF Sum(times) > SlowUpdate * Len(times) THEN grow(interval, 12, 10)
    ELSE IF Sum(times) < FastUpdate * Len(times) THEN shrink(interval, 9, 10)
    ELSE interval

\* PerformanceOptimizer.reduce_update_frequency_on_idle
reduce_update_frequency_on_idle(interval, idle_time) ==
    IF idle_time > IdleLong THEN grow(interval, 15, 10)
    ELSE IF idle_time < IdleShort THEN shrink(interval, 8, 10)
    ELSE interval

\* PerformanceOptimizer.update_system_metrics: the new is_throttled
under_stress(cpu, memory) ==
    \/ Sum(LastN(cpu, RecentUsage)) > throttle_cpu_threshold * Len(LastN(cpu, RecentUsage))
    \/ Sum(LastN(memory, RecentUsage))
         > throttle_memory_threshold * Len(LastN(memory, RecentUsage))

\* f"last_update_{priority}"
PriorityChars(priority) ==
    CASE priority = "critical" -> <<"c", "r", "i", "t", "i", "c", "a", "l">>
      [] priority = "high" -> <<"h", "i", "g", "h">>
      [] priority = "medium" -> <<"m", "e", "d", "i", "u", "m">>
      [] priority = "low" -> <<"l", "o", "w">>
      [] priority = "background" -> <<"b", "a", "c", "k", "g", "r", "o", "u", "n", "d">>

last_update_key(priority) ==
    <<"l", "a", "s", "t", "_", "u", "p", "d", "a", "t", "e", "_">> \o PriorityChars(priority)

\* the priorities should_update slows down while is_throttled
SlowedWhenThrottled_all == Priorities \ {"critical"}
SlowedWhenThrottled == {"low", "background"}

\* should_update: the interval a priority has to wait
effective_interval(priority, adaptive, throttled) ==
    LET base == update_priorities(priority)
        interval == IF priority # "critical" THEN Max(base, adaptive) ELSE base
    IN  IF throttled /\ priority \in SlowedWhenThrottled THEN interval * 2 ELSE interval

\* self.cache_timestamps.get(cache_key, 0)
last_update_of(timestamps, priority) ==
    IF last_update_key(priority) \in DOMAIN timestamps
    THEN timestamps[last_update_key(priority)] ELSE 0

\* PerformanceOptimizer.should_update: whether the priority is due
should_update(timestamps, priority, adaptive, throttled, current_time) ==
    current_time - last_update_of(timestamps, priority)
        >= effective_interval(priority, adaptive, throttled)

\* PerformanceOptimizer.cache_get; "None" when there is no fresh entry
cache_get(values, timestamps, key, current_time) ==
    IF key \in DOMAIN values /\ key \in DOMAIN timestamps
       /\ current_time - timestamps[key] < cache_ttl
    THEN values[key] ELSE "None"

\* pattern in k
Contains(pattern, k) ==
    \E i \in 0..(Len(k) - Len(pattern)) : SubSeq(k, i + 1, i + Len(pattern)) = pattern

Remove(map, keys) == [k \in DOMAIN map \ keys |-> map[k]]

\* PerformanceOptimizer.cache_clear(pattern): the keys it deletes
keys_to_remove_all(values, pattern) == DOMAIN values
keys_to_remove(values, pattern) == { k \in DOMAIN values : Contains(pattern, k) }

\* PerformanceOptimizer.memory_cleanup: the keys it drops
expired_keys(timestamps, current_time) ==
    { k \in DOMAIN timestamps : current_time - timestamps[k] > cache_ttl * 2 }

NoReply ==
    [op |-> "init", priority |-> "", key |-> <<>>, value |-> "", fired |-> FALSE, last |-> 0]

\* time.time() when the optimizer is made: later than any interval after the epoch
StartOfTime == 20000000

\* a new PerformanceOptimizer
PerfInit ==
    /\ adaptive_update_interval = InitialInterval
    /\ update_times = <<>>
    /\ cpu_usage = <<>>
    /\ memory_usage = <<>>
    /\ is_throttled = FALSE
    /\ cache = EmptyMap
    /\ cache_timestamps = EmptyMap
    /\ clock = StartOfTime
    /\ calls = 0
    /\ reply = NoReply
    /\ set_log = EmptyMap
    /\ last_fired = [p \in Priorities |-> 0]

\* a thread that has not reached the loop of _background_worker yet
NewThread == [pc |-> "while", snapshot |-> <<>>, i |-> 0]

\* threading.Thread.is_alive
is_alive(thread) == thread.pc # "dead"

\* no control call was made yet
NoOutcome ==
    [op |-> "none", pid |-> 0, sent |-> FALSE, raised |-> FALSE, error |-> "None",
     message |-> "None"]

\* alert_history[pid] as check_resource_alerts makes it
NeverAlerted == [cpu |-> 0, memory |-> 0]

\* no check_resource_alerts was made yet
NoAlerts == [given |-> EmptyMap, returned |-> {}]

\* a new PerformanceOptimizer: its background processing
WorkerInit ==
    /\ background_tasks = <<>>
    /\ background_running = FALSE
    /\ background_thread = 0
    /\ threads = <<>>
    /\ joining = FALSE
    /\ added = <<>>
    /\ executed = <<>>
    /\ control = "none"
    /\ wcalls = 0

AuxInit ==
    /\ WorkerInit
    /\ snapshot = <<>>
    /\ outcome = NoOutcome
    /\ alert_history = EmptyMap
    /\ alerts = NoAlerts
    /\ alert_log = [pid \in Pids |-> NeverAlerted]
    /\ alert_clock = StartOfAlerts
    /\ alive = {}

-----------------------------------------------------------------------------
(* States and actions. *)

\* last: the operation that made the last step, whether it raised, and its inputs and
\* result: the pids a poll cycle discovered, a store call's argument and return value
\* and the process_sessions table it started from
NoLast ==
    [op |-> "init", raised |-> FALSE, pids |-> <<>>, arg |-> 0, ret |-> 0, before |-> <<>>,
     nodes |-> <<>>]

\* a new database file and a new ClaudeMonitorDB
EmptyStore ==
    /\ projects = <<>>
    /\ process_sessions = <<>>
    /\ process_metrics = <<>>
    /\ process_tree = <<>>
    /\ active_sessions = <<>>
    /\ project_cache = [d \in Dirs |-> 0]
    /\ closeCount = <<>>
    /\ firstId = [d \in Dirs |-> 0]
    /\ last = NoLast

Init ==
    /\ now = 0
    /\ tz \in TzOffsets
    /\ EmptyStore
    /\ CoreInit
    /\ PerfInit
    /\ AuxInit

\* the state a handler starts from
Start(failAt) ==
    [projects |-> projects, sessions |-> process_sessions, metrics |-> process_metrics,
     tree |-> process_tree, active |-> active_sessions, cache |-> project_cache,
     now |-> now, tz |-> tz, closeCount |-> closeCount,
     ops |-> 0, failAt |-> failAt, raised |-> FALSE, ret |-> 0]

WithinBounds(st) ==
    /\ Len(st.sessions) <= MaxSessions
    /\ Len(st.metrics) <= MaxMetrics
    /\ Len(st.tree) <= MaxTreeRows
    /\ \A i \in 1..Len(st.closeCount) : st.closeCount[i] <= MaxCloses

\* the state a handler leaves; lst is the record of the call kept in last
Stored(st, lst) ==
    /\ WithinBounds(st)
    /\ projects' = st.projects
    /\ process_sessions' = st.sessions
    /\ process_metrics' = st.metrics
    /\ process_tree' = st.tree
    /\ active_sessions' = st.active
    /\ project_cache' = st.cache
    /\ closeCount' = st.closeCount
    /\ last' = lst

Finish(st, lst) ==
    /\ Stored(st, lst)
    /\ UNCHANGED <<now, tz, coreVars, ioVars, perfVars, auxVars>>

MonitorCall(st, op, pids) ==
    [NoLast EXCEPT !.op = op, !.raised = st.raised, !.pids = pids]

StoreCall(st, op, arg) ==
    [NoLast EXCEPT !.op = op, !.raised = st.raised, !.arg = arg,
                   !.ret = IF st.raised THEN 0 ELSE st.ret, !.before = process_sessions]

\* the clock moves on by a tick
Tick ==
    /\ now < MaxTicks
    /\ now' = now + 1
    /\ last' = [NoLast EXCEPT !.op = "tick"]
    /\ UNCHANGED <<tz, projects, process_sessions, process_metrics, process_tree,
                   active_sessions, project_cache, closeCount, firstId, coreVars, ioVars, perfVars,
                   auxVars>>

\* One poll cycle.  S is what discovery returned; the handler reads the working
\* directory of an instance only when it has no session for its pid.
Poll ==
    \E S \in SUBSET Pids :
      \E wd \in [S \ ActivePids(active_sessions) -> PollDirs], tr \in [S -> TreeShapes],
         failAt \in FailPoints :
        \E order \in Orders(ActivePids(active_sessions) \ S) :
          LET pids == SortedSeq(S)
              instances == [k \in 1..Len(pids) |->
                              [pid |-> pids[k],
                               working_dir |-> IF pids[k] \in DOMAIN wd THEN wd[pids[k]] ELSE UnknownDir,
                               tree |-> tr[pids[k]]]]
          IN \E st \in { Bind(Start(failAt), LAMBDA s : find_claude_processes(s, instances, order)) } :
               /\ Finish(st, MonitorCall(st, "poll", pids))
               /\ UNCHANGED firstId

Shutdown ==
    \E failAt \in FailPoints :
        \E st \in { Bind(Start(failAt), LAMBDA s : shutdown(s)) } :
           /\ Finish(st, MonitorCall(st, "shutdown", <<>>))
           /\ UNCHANGED firstId

Cleanup ==
    \E days \in CleanupDays, failAt \in FailPoints :
        \E st \in { Bind(Start(failAt), LAMBDA s : cleanup_database(s, days)) } :
           /\ Finish(st, [MonitorCall(st, "cleanup", <<>>) EXCEPT !.arg = days])
           /\ UNCHANGED firstId

\* a new ClaudeMonitorDB on the same database file: after a shutdown, or after the
\* process was killed
Restart ==
    /\ active_sessions' = <<>>
    /\ project_cache' = [d \in Dirs |-> 0]
    /\ last' = [NoLast EXCEPT !.op = "restart"]
    /\ cpu_histories' = [p \in Pids |-> <<>>]
    /\ paused_pids' = {}
    /\ io_tracker' = EmptyMap
    /\ io_totals' = EmptyMap
    /\ UNCHANGED <<now, tz, projects, process_sessions, process_metrics, process_tree,
                   closeCount, firstId, instance, appended, claude_processes, scan,
                   perfVars, auxVars>>

Next == Tick \/ Poll \/ Shutdown \/ Cleanup \/ Restart

Spec == Init /\ [][Next]_vars

-----------------------------------------------------------------------------
(* The store's methods and the monitor's project resolution, called directly. *)

\* firstId remembers the id the first successful resolution of a working directory returned
Resolved(st, working_dir) ==
    IF st.raised \/ firstId[working_dir] # 0 THEN firstId
    ELSE [firstId EXCEPT ![working_dir] = st.ret]

\* ClaudeDatabase.get_or_create_project, for a working directory of D
GetOrCreateProjectIn(D) ==
    \E working_dir \in D, failAt \in FailPoints :
        \E st \in { Bind(Start(failAt), LAMBDA s : db_get_or_create_project(s, working_dir)) } :
           /\ Finish(st, StoreCall(st, "get_or_create_project", working_dir))
           /\ firstId' = Resolved(st, working_dir)

DbGetOrCreateProject == GetOrCreateProjectIn(Dirs)

\* ClaudeMonitorDB.get_or_create_project
ResolveProject ==
    \E working_dir \in Dirs, failAt \in FailPoints :
        \E st \in { Bind(Start(failAt), LAMBDA s : monitor_get_or_create_project(s, working_dir)) } :
           /\ Finish(st, StoreCall(st, "get_or_create_project", working_dir))
           /\ firstId' = Resolved(st, working_dir)

NextProjects == Tick \/ DbGetOrCreateProject \/ ResolveProject \/ Restart

SpecProjects == Init /\ [][NextProjects]_vars

\* the session methods of the store, for the projects of PollDirs
DbProject == GetOrCreateProjectIn(PollDirs)

DbStartSession ==
    \E pid \in Pids, i \in 1..Len(projects), failAt \in FailPoints :
        \E st \in { Bind(Start(failAt), LAMBDA s : db_start_session(s, pid, projects[i].id)) } :
           /\ Finish(st, StoreCall(st, "start_session", pid))
           /\ UNCHANGED firstId

DbEndSession ==
    \E session_id \in 1..MaxSessions, failAt \in FailPoints :
        \E st \in { Bind(Start(failAt), LAMBDA s : db_end_session(s, session_id)) } :
           /\ Finish(st, StoreCall(st, "end_session", session_id))
           /\ UNCHANGED firstId

NextDB == Tick \/ DbProject \/ DbStartSession \/ DbEndSession

SpecDB == Init /\ [][NextDB]_vars

(* The store's tree and cleanup methods and the monitor's tree recording, called
   directly. *)

\* what discover_process_tree can return for a monitored pid, max_depth = 2
AllTreeShapes == {"none", "leaf", "child", "grand"}

\* tree_nodes arguments of record_process_tree: a single node, a nested tree, and the
\* flat list convert_tree_to_db_nodes makes of that tree
TreeNodeLists ==
    { discover_process_tree(1, "leaf"),
      discover_process_tree(1, "child"),
      convert_tree_to_db_nodes(discover_process_tree(1, "child")[1]) }

TreeFinish(st, lst) ==
    /\ Len(st.tree) <= MaxSnapshotRows
    /\ process_tree' = st.tree
    /\ last' = lst
    /\ UNCHANGED <<now, tz, projects, process_sessions, process_metrics, active_sessions,
                   project_cache, closeCount, firstId, coreVars, ioVars, perfVars, auxVars>>

\* a call of a tree method: its session id, its nodes and the process_tree table it
\* started from
TreeCall(st, op, session_id, tree_nodes) ==
    [NoLast EXCEPT !.op = op, !.raised = st.raised, !.arg = session_id,
                   !.nodes = tree_nodes, !.before = process_tree]

DbRecordProcessTree ==
    \E session_id \in 1..MaxSessions, tree_nodes \in TreeNodeLists, failAt \in FailPoints :
        \E st \in { Bind(Start(failAt),
                         LAMBDA s : db_record_process_tree(s, session_id, tree_nodes)) } :
           TreeFinish(st, TreeCall(st, "record_process_tree", session_id, tree_nodes))

MonitorRecordProcessTree ==
    \E root_pid \in Pids, session_id \in 1..MaxSessions, shape \in AllTreeShapes,
       failAt \in FailPoints :
        \E st \in { Bind(Start(failAt),
                         LAMBDA s : monitor_record_process_tree(s, root_pid, session_id, shape)) } :
           TreeFinish(st, TreeCall(st, "monitor_record_process_tree", session_id,
                                   discover_process_tree(root_pid, shape)))

DbCleanupOldData ==
    \E days \in CleanupDays, failAt \in FailPoints :
        \E st \in { Bind(Start(failAt), LAMBDA s : db_cleanup_old_data(s, days)) } :
           TreeFinish(st, TreeCall(st, "cleanup_old_data", days, <<>>))

NextTree == Tick \/ DbRecordProcessTree \/ MonitorRecordProcessTree \/ DbCleanupOldData

SpecTree == Init /\ [][NextTree]_vars

-----------------------------------------------------------------------------
(* ClaudeMonitor: the part of a poll cycle the base class runs for one process
   (parse_claude_process) and the pause control.  It shares no state with the store:
   the poll cycle of ClaudeMonitorDB above starts from the instances it returns. *)

\* what proc.status() can give
SysStatuses == {"sleeping", "stopped", "gone"}

CoreUnchanged ==
    UNCHANGED <<now, tz, projects, process_sessions, process_metrics, process_tree,
                active_sessions, project_cache, closeCount, firstId, last, perfVars,
                auxVars>>

RECURSIVE TotalLen(_, _)
TotalLen(f, S) ==
    IF S = {} THEN 0 ELSE LET p == CHOOSE q \in S : TRUE IN Len(f[p]) + TotalLen(f, S \ {p})

\* the processes a sampling can meet: the CPU sample is the one of the indicators
Procs(pids, statuses, samplings) ==
    { [pid |-> pid, sys_status |-> sys_status, indicators |-> indicators,
       sampling |-> sampling] :
        pid \in pids, sys_status \in statuses, indicators \in Indicators,
        sampling \in samplings }

\* ClaudeMonitor.parse_claude_process
ParseClaudeProcess ==
    \E proc \in Procs(Pids, SysStatuses, {"ok"}) :
        /\ TotalLen(appended, Pids) < MaxAppends
        /\ \E r \in { parse_claude_process(
                          Monitor(cpu_histories, appended, io_tracker, io_totals),
                          paused_pids, proc) } :
               /\ cpu_histories' = r.m.cpu_histories
               /\ appended' = r.m.appended
               /\ io_tracker' = r.m.io_tracker
               /\ io_totals' = r.m.io_totals
               /\ instance' = r.instance
        /\ UNCHANGED <<paused_pids, claude_processes, scan>>
        /\ CoreUnchanged

\* ClaudeMonitor.pause_resume_process; sent is FALSE when os.kill raises
PauseResumeProcess ==
    \E pid \in Pids, sent \in BOOLEAN :
        /\ paused_pids' = IF ~sent THEN paused_pids
                          ELSE IF pid \in paused_pids THEN paused_pids \ {pid}
                          ELSE paused_pids \cup {pid}
        /\ UNCHANGED <<cpu_histories, instance, appended, ioVars>>
        /\ CoreUnchanged

NextCore == ParseClaudeProcess \/ PauseResumeProcess

SpecCore == Init /\ [][NextCore]_vars

(* A whole scan of the process table by ClaudeMonitor.find_claude_processes. *)

\* what a scan can meet of one process: it answers and its indicators are read, reading
\* them is denied, it vanishes while they are read, or it is gone when its status is
\* asked for
ScanOptions ==
    { proc \in Procs(Pids, {"sleeping", "gone"}, Samplings) :
        \/ proc.sys_status = "sleeping" /\ proc.sampling = "ok"
        \/ proc.sys_status = "sleeping" /\ proc.sampling = "denied" /\ proc.indicators = Busy
        \/ proc.sys_status = "sleeping" /\ proc.sampling = "nosuch" /\ proc.indicators = Quiet
        \/ proc.sys_status = "gone" /\ proc.sampling = "ok" /\ proc.indicators = Quiet }

\* psutil.process_iter: the processes of the pids in S, in the order of their pids
Scans(S) ==
    { [k \in 1..Cardinality(S) |-> f[SortedSeq(S)[k]]] :
        f \in { g \in [S -> ScanOptions] : \A p \in S : g[p].pid = p } }

FindClaudeProcesses ==
    \E S \in SUBSET Pids :
        \E procs \in Scans(S) :
            /\ TotalLen(appended, Pids) + Len(procs) <= MaxScanned
            /\ \E r \in { core_find_claude_processes(
                              Monitor(cpu_histories, appended, io_tracker, io_totals),
                              paused_pids, procs) } :
                   /\ cpu_histories' = r.m.cpu_histories
                   /\ appended' = r.m.appended
                   /\ io_tracker' = r.m.io_tracker
                   /\ io_totals' = r.m.io_totals
                   /\ claude_processes' = r.instances
            /\ scan' = procs
            /\ UNCHANGED <<paused_pids, instance>>
            /\ CoreUnchanged

NextScan == FindClaudeProcesses \/ PauseResumeProcess

SpecScan == Init /\ [][NextScan]_vars

(* The classifier on the histories a monitor can hold. *)

\* CPU samples on both sides of every threshold of the classifier
CpuValues == {0, 2, 5, 6, 30, 31, 200}

\* the histories of test_state_detection
TestHistories ==
    { <<150, 120, 180, 200, 160>>, <<30, 45, 2, 1, 3>>, <<1, 0, 1, 0, 1>>,
      <<20, 30, 25, 18, 22>>, <<80, 50, 3, 1, 0>>, <<0, 0, 0, 0, 0>> }

Histories == UNION { [1..n -> CpuValues] : n \in 0..maxlen } \cup TestHistories

\* a monitor that holds some history for pid 1 and has paused some pids
InitStatus ==
    /\ now = 0
    /\ tz = 0
    /\ EmptyStore
    /\ \E h \in Histories : cpu_histories = [p \in Pids |-> IF p = 1 THEN h ELSE <<>>]
    /\ paused_pids \in SUBSET Pids
    /\ instance = NoInstance
    /\ appended = cpu_histories
    /\ io_tracker = EmptyMap
    /\ io_totals = EmptyMap
    /\ claude_processes = <<>>
    /\ scan = <<>>
    /\ PerfInit
    /\ AuxInit

\* ClaudeMonitor.determine_process_status
DetermineProcessStatus ==
    \E pid \in Pids, sys_status \in SysStatuses :
        /\ instance' = [pid |-> pid, sys_status |-> sys_status,
                        status |-> determine_process_status(paused_pids, pid, sys_status,
                                                            cpu_histories[pid]),
                        cpu_history |-> cpu_histories[pid], io |-> ZeroStats]
        /\ UNCHANGED <<cpu_histories, paused_pids, appended, ioVars>>
        /\ CoreUnchanged

NextStatus == DetermineProcessStatus

SpecStatus == InitStatus /\ [][NextStatus]_vars

-----------------------------------------------------------------------------
(* PerformanceOptimizer: its calls.  It shares no state with the monitor and the
   store. *)

PerfUnchanged ==
    UNCHANGED <<now, tz, projects, process_sessions, process_metrics, process_tree,
                active_sessions, project_cache, closeCount, firstId, last, coreVars, ioVars,
                auxVars>>

\* the times an update can take, the idle times the caller can pass, and the loads of
\* the system (CPU in percent, memory in MB)
Durations == {50000, 300000, 1000000}
IdleTimes == {3000000, 10000000, 40000000}
Loads == { [cpu |-> 50, memory |-> 500], [cpu |-> 100, memory |-> 500] }

\* the keys and values the callers of the cache use, and the patterns they clear
CacheKeys == { <<"b", "a">>, last_update_key("critical") }
CacheValues == {"v1", "v2"}
Patterns == { <<"a">>, <<"b">> }

\* time passes
AdvanceBy(steps) ==
    \E dt \in steps :
        /\ calls < MaxCalls
        /\ calls' = calls + 1
        /\ clock' = clock + dt
        /\ reply' = [NoReply EXCEPT !.op = "sleep"]
        /\ UNCHANGED <<adaptive_update_interval, update_times, cpu_usage, memory_usage,
                       is_throttled, cache, cache_timestamps, set_log, last_fired>>
        /\ PerfUnchanged

\* PerformanceOptimizer.measure_update_time, of an update that takes duration
MeasureUpdateTime ==
    \E duration \in Durations :
        /\ calls < MaxCalls
        /\ calls' = calls + 1
        /\ clock' = clock + duration
        /\ update_times' = bounded_append(update_times, duration, update_times_maxlen)
        /\ adaptive_update_interval'
             = adjust_update_interval(adaptive_update_interval, update_times')
        /\ reply' = [NoReply EXCEPT !.op = "measure_update_time",
                                    !.last = adaptive_update_interval]
        /\ UNCHANGED <<cpu_usage, memory_usage, is_throttled, cache, cache_timestamps,
                       set_log, last_fired>>
        /\ PerfUnchanged

\* PerformanceOptimizer.reduce_update_frequency_on_idle
ReduceUpdateFrequencyOnIdle ==
    \E idle_time \in IdleTimes :
        /\ calls < MaxCalls
        /\ calls' = calls + 1
        /\ adaptive_update_interval'
             = reduce_update_frequency_on_idle(adaptive_update_interval, idle_time)
        /\ reply' = [NoReply EXCEPT !.op = "reduce_update_frequency_on_idle",
                                    !.last = adaptive_update_interval]
        /\ UNCHANGED <<update_times, cpu_usage, memory_usage, is_throttled, cache,
                       cache_timestamps, clock, set_log, last_fired>>
        /\ PerfUnchanged

\* PerformanceOptimizer.update_system_metrics
UpdateSystemMetrics ==
    \E load \in Loads :
        /\ calls < MaxCalls
        /\ calls' = calls + 1
        /\ cpu_usage' = bounded_append(cpu_usage, load.cpu, usage_maxlen)
        /\ memory_usage' = bounded_append(memory_usage, load.memory, usage_maxlen)
        /\ is_throttled' = under_stress(cpu_usage', memory_usage')
        /\ reply' = [NoReply EXCEPT !.op = "update_system_metrics"]
        /\ UNCHANGED <<adaptive_update_interval, update_times, cache, cache_timestamps,
                       clock, set_log, last_fired>>
        /\ PerfUnchanged

\* PerformanceOptimizer.should_update
ShouldUpdateOf(priorities) ==
    \E priority \in priorities :
        \E fired \in { should_update(cache_timestamps, priority, adaptive_update_interval,
                                      is_throttled, clock) } :
            /\ calls < MaxCalls
            /\ calls' = calls + 1
            /\ cache_timestamps' = IF fired
                                   THEN Put(cache_timestamps, last_update_key(priority), clock)
                                   ELSE cache_timestamps
            /\ reply' = [NoReply EXCEPT !.op = "should_update", !.priority = priority,
                                        !.key = last_update_key(priority), !.fired = fired,
                                        !.last = last_update_of(cache_timestamps, priority)]
            /\ last_fired' = IF fired THEN [last_fired EXCEPT ![priority] = clock]
                              ELSE last_fired
            /\ UNCHANGED <<adaptive_update_interval, update_times, cpu_usage, memory_usage,
                           is_throttled, cache, clock, set_log>>
            /\ PerfUnchanged

\* PerformanceOptimizer.cache_set
CacheSetOf(keys) ==
    \E key \in keys, value \in CacheValues :
        /\ calls < MaxCalls
        /\ calls' = calls + 1
        /\ cache' = Put(cache, key, value)
        /\ cache_timestamps' = Put(cache_timestamps, key, clock)
        /\ set_log' = Put(set_log, key, [value |-> value, at |-> clock, cleared |-> FALSE])
        /\ reply' = [NoReply EXCEPT !.op = "cache_set", !.key = key, !.value = value]
        /\ UNCHANGED <<adaptive_update_interval, update_times, cpu_usage, memory_usage,
                       is_throttled, clock, last_fired>>
        /\ PerfUnchanged

\* PerformanceOptimizer.cache_get
CacheGet ==
    \E key \in CacheKeys :
        /\ calls < MaxCalls
        /\ calls' = calls + 1
        /\ reply' = [NoReply EXCEPT !.op = "cache_get", !.key = key,
                                    !.value = cache_get(cache, cache_timestamps, key, clock)]
        /\ UNCHANGED <<adaptive_update_interval, update_times, cpu_usage, memory_usage,
                       is_throttled, cache, cache_timestamps, clock, set_log, last_fired>>
        /\ PerfUnchanged

\* PerformanceOptimizer.cache_clear()
CacheClearAll ==
    /\ calls < MaxCalls
    /\ calls' = calls + 1
    /\ cache' = EmptyMap
    /\ cache_timestamps' = EmptyMap
    /\ set_log' = [k \in DOMAIN set_log |-> [set_log[k] EXCEPT !.cleared = TRUE]]
    /\ reply' = [NoReply EXCEPT !.op = "cache_clear"]
    /\ UNCHANGED <<adaptive_update_interval, update_times, cpu_usage, memory_usage,
                   is_throttled, clock, last_fired>>
    /\ PerfUnchanged

\* PerformanceOptimizer.cache_clear(pattern)
CacheClearPattern ==
    \E pattern \in Patterns :
        /\ calls < MaxCalls
        /\ calls' = calls + 1
        /\ cache' = Remove(cache, keys_to_remove(cache, pattern))
        /\ cache_timestamps' = Remove(cache_timestamps, keys_to_remove(cache, pattern))
        /\ set_log' = [k \in DOMAIN set_log |->
                          IF k \in keys_to_remove(cache, pattern)
                          THEN [set_log[k] EXCEPT !.cleared = TRUE] ELSE set_log[k]]
        /\ reply' = [NoReply EXCEPT !.op = "cache_clear_pattern", !.key = pattern]
        /\ UNCHANGED <<adaptive_update_interval, update_times, cpu_usage, memory_usage,
                       is_throttled, clock, last_fired>>
        /\ PerfUnchanged

\* PerformanceOptimizer.memory_cleanup; update_times never holds more than its maxlen,
\* so the trim of the metrics does nothing
MemoryCleanup ==
    /\ calls < MaxCalls
    /\ calls' = calls + 1
    /\ cache' = Remove(cache, expired_keys(cache_timestamps, clock))
    /\ cache_timestamps' = Remove(cache_timestamps, expired_keys(cache_timestamps, clock))
    /\ update_times' = IF Len(update_times) > update_times_maxlen
                       THEN LastN(update_times, 50) ELSE update_times
    /\ reply' = [NoReply EXCEPT !.op = "memory_cleanup"]
    /\ UNCHANGED <<adaptive_update_interval, cpu_usage, memory_usage, is_throttled, clock,
                   set_log, last_fired>>
    /\ PerfUnchanged

(* The adaptive interval. *)

\* the histories of update times the optimizer starts from: one short of the samples
\* _adjust_update_interval needs, and one short of the maxlen of the deque
Runs == { [k \in 1..n |-> d] : n \in {0, MinSamples - 1, update_times_maxlen - 1},
                               d \in Durations }

\* an optimizer that has measured some updates and was told of idle times: the interval
\* is at one of its limits, or is the initial one where no call has had to change it
InitInterval ==
    /\ now = 0
    /\ tz = 0
    /\ EmptyStore
    /\ CoreInit
    /\ update_times \in Runs
    /\ adaptive_update_interval \in {min_update_interval, InitialInterval, max_update_interval}
    /\ adaptive_update_interval = InitialInterval =>
           adjust_update_interval(InitialInterval, update_times) = InitialInterval
    /\ cpu_usage = <<>>
    /\ memory_usage = <<>>
    /\ is_throttled = FALSE
    /\ cache = EmptyMap
    /\ cache_timestamps = EmptyMap
    /\ clock = StartOfTime
    /\ calls = 0
    /\ reply = NoReply
    /\ set_log = EmptyMap
    /\ last_fired = [p \in Priorities |-> 0]
    /\ AuxInit

NextInterval == MeasureUpdateTime \/ ReduceUpdateFrequencyOnIdle

SpecInterval == InitInterval /\ [][NextInterval]_vars

(* The scheduler. *)

\* an optimizer whose interval the idle times have left at a limit, or a new one
InitSched ==
    /\ now = 0
    /\ tz = 0
    /\ EmptyStore
    /\ CoreInit
    /\ adaptive_update_interval \in {min_update_interval, InitialInterval, max_update_interval}
    /\ update_times = <<>>
    /\ cpu_usage = <<>>
    /\ memory_usage = <<>>
    /\ is_throttled = FALSE
    /\ cache = EmptyMap
    /\ cache_timestamps = EmptyMap
    /\ clock = StartOfTime
    /\ calls = 0
    /\ reply = NoReply
    /\ set_log = EmptyMap
    /\ last_fired = [p \in Priorities |-> 0]
    /\ AuxInit

SchedAdvance == AdvanceBy({50000, 1000000, 2000000})

ShouldUpdate == ShouldUpdateOf(Priorities)

SchedCacheSet == CacheSetOf({last_update_key("critical")})

NextSched == SchedAdvance \/ ShouldUpdate \/ UpdateSystemMetrics \/ SchedCacheSet

SpecSched == InitSched /\ [][NextSched]_vars

(* The cache. *)

CacheAdvance == AdvanceBy({1000000, 2000000})

CacheSet == CacheSetOf(CacheKeys)

ShouldUpdateCritical == ShouldUpdateOf({"critical"})

NextCache ==
    \/ CacheAdvance
    \/ CacheSet
    \/ CacheGet
    \/ CacheClearAll
    \/ CacheClearPattern
    \/ ShouldUpdateCritical
    \/ MemoryCleanup

SpecCache == InitSched /\ [][NextCache]_vars

-----------------------------------------------------------------------------
(* PerformanceOptimizer: the background processing.  The main thread calls
   start_background_processing, stop_background_processing and add_background_task; a
   worker thread runs _background_worker.  A step of a thread is one operation on the
   shared state: list.append, list.remove and the copy background_tasks[:] are each
   done under the interpreter lock.  A task takes any time; everything else a worker
   does between two tasks takes less than the second that join waits. *)

\* the tasks the main thread queues; calling "failing" raises an exception
Tasks == {"quick", "failing"}

WorkerUnchanged ==
    UNCHANGED <<now, tz, projects, process_sessions, process_metrics, process_tree,
                active_sessions, project_cache, closeCount, firstId, last, coreVars, ioVars,
                perfVars, discVars, alertVars, alive>>

\* list.remove(task) where the task is in the list: the first occurrence goes
RECURSIVE remove_first(_, _)
remove_first(list, task) ==
    IF list = <<>> THEN <<>>
    ELSE IF Head(list) = task THEN Tail(list)
    ELSE <<Head(list)>> \o remove_first(Tail(list), task)

\* _background_worker, after task() raised: what is left of background_tasks
after_failure_keep(list, task) == list
after_failure(list, task) == remove_first(list, task)

\* _background_worker, after task() returned: what is left of background_tasks
after_success_keep(list, task) == list
after_success(list, task) == remove_first(list, task)

\* start_background_processing: whether a thread is to be made
needs_thread_always(thread, all) == TRUE
needs_thread(thread, all) == thread = 0 \/ ~is_alive(all[thread])

\* PerformanceOptimizer.start_background_processing
StartBackgroundProcessing ==
    /\ ~joining
    /\ wcalls < MaxWorkerCalls
    /\ wcalls' = wcalls + 1
    /\ control' = "start"
    /\ IF needs_thread(background_thread, threads)
       THEN /\ Len(threads) < MaxThreads
            /\ background_running' = TRUE
            /\ threads' = Append(threads, NewThread)
            /\ background_thread' = Len(threads) + 1
       ELSE UNCHANGED <<background_running, threads, background_thread>>
    /\ UNCHANGED <<background_tasks, joining, added, executed>>
    /\ WorkerUnchanged

\* PerformanceOptimizer.stop_background_processing, up to the join
StopBackgroundProcessing ==
    /\ ~joining
    /\ wcalls < MaxWorkerCalls
    /\ wcalls' = wcalls + 1
    /\ background_running' = FALSE
    /\ IF background_thread # 0 /\ is_alive(threads[background_thread])
       THEN joining' = TRUE /\ control' = "stopping"
       ELSE joining' = FALSE /\ control' = "stop"
    /\ UNCHANGED <<background_tasks, background_thread, threads, added, executed>>
    /\ WorkerUnchanged

\* background_thread.join(timeout=1.0) returns: the thread has ended, or it is inside a
\* task that takes longer than the timeout
JoinReturns ==
    /\ joining
    /\ ~is_alive(threads[background_thread]) \/ threads[background_thread].pc = "task"
    /\ joining' = FALSE
    /\ control' = "stop"
    /\ UNCHANGED <<background_tasks, background_running, background_thread, threads, added,
                   executed, wcalls>>
    /\ WorkerUnchanged

\* PerformanceOptimizer.add_background_task
AddBackgroundTask ==
    \E task \in Tasks :
        /\ ~joining
        /\ wcalls < MaxWorkerCalls
        /\ Len(added) < MaxAdds
        /\ wcalls' = wcalls + 1
        /\ background_tasks' = Append(background_tasks, task)
        /\ added' = Append(added, task)
        /\ UNCHANGED <<background_running, background_thread, threads, joining, executed,
                       control>>
        /\ WorkerUnchanged

\* _background_worker: while self.background_running, and the copy of the list the for
\* loop runs over
WorkerWhile(w) ==
    /\ threads[w].pc = "while"
    /\ threads' = [threads EXCEPT ![w] =
                      IF background_running
                      THEN [pc |-> "for", snapshot |-> background_tasks, i |-> 1]
                      ELSE [pc |-> "dead", snapshot |-> <<>>, i |-> 0]]
    /\ UNCHANGED <<background_tasks, background_running, background_thread, joining, added,
                   executed, control, wcalls>>
    /\ WorkerUnchanged

\* _background_worker: the next task of the for loop is called, unless there is none or
\* background_running is off
WorkerFor(w) ==
    /\ threads[w].pc = "for"
    /\ threads' = [threads EXCEPT ![w].pc =
                      IF threads[w].i > Len(threads[w].snapshot) \/ ~background_running
                      THEN "sleep" ELSE "task"]
    /\ UNCHANGED <<background_tasks, background_running, background_thread, joining, added,
                   executed, control, wcalls>>
    /\ WorkerUnchanged

\* _background_worker: task() returns or raises
WorkerTask(w) ==
    /\ threads[w].pc = "task"
    /\ executed' = Append(executed, threads[w].snapshot[threads[w].i])
    /\ threads' = [threads EXCEPT ![w].pc =
                      IF threads[w].snapshot[threads[w].i] = "failing" THEN "except"
                      ELSE "remove"]
    /\ UNCHANGED <<background_tasks, background_running, background_thread, joining, added,
                   control, wcalls>>
    /\ WorkerUnchanged

\* _background_worker: background_tasks.remove(task) after the task returned (a task
\* that is not in the list raises ValueError, and the handler leaves the list alone), or
\* the handler of a task that raised
WorkerRemove(w) ==
    /\ threads[w].pc \in {"remove", "except"}
    /\ \E task \in {threads[w].snapshot[threads[w].i]} :
          background_tasks' = IF threads[w].pc = "except"
                              THEN after_failure(background_tasks, task)
                              ELSE after_success(background_tasks, task)
    /\ threads' = [threads EXCEPT ![w].pc = "for", ![w].i = @ + 1]
    /\ UNCHANGED <<background_running, background_thread, joining, added, executed, control,
                   wcalls>>
    /\ WorkerUnchanged

\* _background_worker: time.sleep(0.1) is over
WorkerSleep(w) ==
    /\ threads[w].pc = "sleep"
    /\ threads' = [threads EXCEPT ![w].pc = "while"]
    /\ UNCHANGED <<background_tasks, background_running, background_thread, joining, added,
                   executed, control, wcalls>>
    /\ WorkerUnchanged

WorkerStep ==
    \E w \in 1..Len(threads) :
        WorkerWhile(w) \/ WorkerFor(w) \/ WorkerTask(w) \/ WorkerRemove(w) \/ WorkerSleep(w)

NextWorker ==
    \/ StartBackgroundProcessing
    \/ StopBackgroundProcessing
    \/ JoinReturns
    \/ AddBackgroundTask
    \/ WorkerStep

SpecWorker == Init /\ [][NextWorker]_vars

\* the worker threads are scheduled fairly, every task returns or raises, and join
\* returns
SpecWorkerFair == SpecWorker /\ WF_vars(WorkerStep) /\ WF_vars(JoinReturns)

-----------------------------------------------------------------------------
(* ClaudeMonitor.find_claude_processes: which processes of the table are taken for
   instances of the CLI.  A text is the sequence of its pieces, a piece standing for the
   characters of its name; an argument of a command line is a text, and 'x in text' is
   Contains(x, text). *)

\* os.getpid()
current_pid == 1

\* str.lower
lower(text) ==
    [k \in 1..Len(text) |->
        CASE text[k] = "Claude" -> "claude"
          [] text[k] = "Helper" -> "helper"
          [] text[k] = "Squirrel" -> "squirrel"
          [] OTHER -> text[k]]

\* ' '.join(cmdline)
RECURSIVE join(_)
join(cmdline) ==
    IF cmdline = <<>> THEN <<>>
    ELSE IF Len(cmdline) = 1 THEN cmdline[1]
    ELSE cmdline[1] \o <<" ">> \o join(Tail(cmdline))

\* the texts find_claude_processes looks for
claude == <<"claude">>
Claude_app == <<"Claude", ".app">>
Claude_Helper == <<"Claude", " ", "Helper">>
chrome_crashpad == <<"chrome_crashpad">>
Squirrel == <<"Squirrel">>
claude_top == <<"claude", "-top">>
docker == <<"docker">>
mcp_filesystem == <<"mcp/filesystem">>

\* any('claude' in cmd.lower() for cmd in cmdline), cmdline not empty
names_claude(cmdline) == \E k \in 1..Len(cmdline) : Contains(claude, lower(cmdline[k]))

\* the desktop app, its helpers, its crash reporter and its updater
is_desktop_app(cmdline_str) ==
    \/ Contains(Claude_app, cmdline_str)
    \/ Contains(Claude_Helper, cmdline_str)
    \/ Contains(chrome_crashpad, cmdline_str)
    \/ Contains(Squirrel, cmdline_str)

\* claude-top itself, by its command
is_claude_top_never(cmdline_str) == FALSE
is_claude_top(cmdline_str) == Contains(claude_top, cmdline_str)

\* the docker processes that are skipped
is_skipped_docker_all(cmdline_str) == Contains(docker, cmdline_str)
is_skipped_docker(cmdline_str) ==
    Contains(docker, cmdline_str) /\ Contains(mcp_filesystem, cmdline_str)

\* find_claude_processes: the process is passed to parse_claude_process
is_claude_cli(proc) ==
    /\ proc.pid # current_pid
    /\ names_claude(proc.cmdline)
    /\ ~is_desktop_app(join(proc.cmdline))
    /\ ~is_claude_top(join(proc.cmdline))
    /\ ~is_skipped_docker(join(proc.cmdline))

\* the arguments of the command lines of the process table
Args ==
    { claude, <<"Claude">>, Claude_app, <<"Helper">>, chrome_crashpad, Squirrel, claude_top,
      docker, mcp_filesystem }

\* proc.info['cmdline']: None or empty, or up to MaxArgs arguments
CmdLines == UNION { [1..n -> Args] : n \in 0..MaxArgs }

\* psutil.process_iter: the processes of the pids in S, in the order of their pids, each
\* running and answering
Tables(S) ==
    { [k \in 1..Cardinality(S) |->
          [pid |-> SortedSeq(S)[k], sys_status |-> "sleeping", indicators |-> Quiet,
           sampling |-> "ok", cmdline |-> f[SortedSeq(S)[k]]]] :
        f \in [S -> CmdLines] }

\* ClaudeMonitor.find_claude_processes on a process table, the first time a monitor
\* runs it
Discover ==
    \E S \in SUBSET Pids \ {{}} :
        \E procs \in Tables(S) :
            /\ snapshot = <<>>
            /\ \E r \in { core_find_claude_processes(
                              Monitor(cpu_histories, appended, io_tracker, io_totals),
                              paused_pids, SelectSeq(procs, is_claude_cli)) } :
                   /\ cpu_histories' = r.m.cpu_histories
                   /\ appended' = r.m.appended
                   /\ io_tracker' = r.m.io_tracker
                   /\ io_totals' = r.m.io_totals
                   /\ claude_processes' = r.instances
            /\ scan' = SelectSeq(procs, is_claude_cli)
            /\ snapshot' = procs
            /\ UNCHANGED <<paused_pids, instance, outcome, workerVars, alertVars, alive>>
            /\ UNCHANGED <<now, tz, projects, process_sessions, process_metrics, process_tree,
                           active_sessions, project_cache, closeCount, firstId, last,
                           perfVars>>

NextDiscover == Discover

SpecDiscover == Init /\ [][NextDiscover]_vars

-----------------------------------------------------------------------------
(* The controls: ClaudeMonitor.pause_resume_process and kill_process, and
   ProcessManager.adjust_process_priority.  What the operating system does with the
   request is an input: it does it, or the call raises because the process is gone,
   because access is denied, or for another reason. *)

OsAnswers == {"ok", "NoSuchProcess", "AccessDenied", "OSError"}

\* except Exception
caught_only_gone(exception) == exception = "NoSuchProcess"
caught(exception) == exception \in {"NoSuchProcess", "AccessDenied", "OSError"}

\* ClaudeMonitor.pause_resume_process: the set it leaves and what it returns
pause_resume_process(paused, pid, os) ==
    IF os = "ok"
    THEN [paused |-> IF pid \in paused THEN paused \ {pid} ELSE paused \cup {pid},
          raised |-> FALSE, error |-> "None", message |-> "None"]
    ELSE [paused |-> paused, raised |-> ~caught(os), error |-> "Error", message |-> "None"]

\* ClaudeMonitor.kill_process: the pair it returns
kill_process(pid, force, os) ==
    IF os = "ok"
    THEN [raised |-> FALSE, error |-> "None",
          message |-> IF force THEN "Process killed forcefully (SIGKILL)"
                      ELSE "Process terminated gracefully (SIGTERM)"]
    ELSE [raised |-> ~caught(os),
          error |-> CASE os = "NoSuchProcess" -> "Process no longer exists"
                      [] os = "AccessDenied" -> "Access denied to process"
                      [] OTHER -> "Error killing process",
          message |-> "None"]

\* ProcessManager.adjust_process_priority: (True, message) or (False, reason)
adjust_process_priority(pid, nice_value, os) ==
    IF os = "ok"
    THEN [raised |-> FALSE, error |-> "None", message |-> "Priority changed"]
    ELSE [raised |-> ~caught(os),
          error |-> CASE os = "NoSuchProcess" -> "Process no longer exists"
                      [] os = "AccessDenied" -> "Access denied - cannot change priority"
                      [] OTHER -> "Error changing priority",
          message |-> "None"]

ControlUnchanged ==
    UNCHANGED <<now, tz, projects, process_sessions, process_metrics, process_tree,
                active_sessions, project_cache, closeCount, firstId, last, cpu_histories,
                instance, appended, ioVars, perfVars, workerVars, snapshot, alertVars, alive>>

\* a call of pause_resume_process
PauseResume ==
    \E pid \in Pids, os \in OsAnswers :
        \E r \in {pause_resume_process(paused_pids, pid, os)} :
            /\ paused_pids' = r.paused
            /\ outcome' = [op |-> "pause_resume", pid |-> pid, sent |-> os = "ok",
                           raised |-> r.raised, error |-> r.error, message |-> r.message]
            /\ ControlUnchanged

\* a call of kill_process
KillProcess ==
    \E pid \in Pids, force \in BOOLEAN, os \in OsAnswers :
        \E r \in {kill_process(pid, force, os)} :
            /\ outcome' = [op |-> "kill", pid |-> pid, sent |-> os = "ok",
                           raised |-> r.raised, error |-> r.error, message |-> r.message]
            /\ UNCHANGED paused_pids
            /\ ControlUnchanged

\* a call of adjust_process_priority
AdjustProcessPriority ==
    \E pid \in Pids, nice_value \in {0, 10}, os \in OsAnswers :
        \E r \in {adjust_process_priority(pid, nice_value, os)} :
            /\ outcome' = [op |-> "priority", pid |-> pid, sent |-> os = "ok",
                           raised |-> r.raised, error |-> r.error, message |-> r.message]
            /\ UNCHANGED paused_pids
            /\ ControlUnchanged

NextControl == PauseResume \/ KillProcess \/ AdjustProcessPriority

SpecControl == Init /\ [][NextControl]_vars

-----------------------------------------------------------------------------
(* ClaudeMonitor.check_resource_alerts.  Times are in seconds, CPU in percent and memory
   in MB.  self.instances is set by the caller from the last discovery: it is an input
   of each check, a map from the pids of the instances to their readings. *)

cpu_threshold == 80
memory_threshold == 1000
alert_cooldown == 60

\* the seconds between two readings of the clock
AlertTick == 30

AlertTypes == {"cpu", "memory"}

\* cpu_percent and memory_mb of an instance, on both sides of the thresholds
Readings == [cpu_percent : {50, 90}, memory_mb : {500, 1500}]

\* instance.cpu_percent > self.cpu_threshold, instance.memory_mb > self.memory_threshold
exceeds(reading, type) ==
    IF type = "cpu" THEN reading.cpu_percent > cpu_threshold
    ELSE reading.memory_mb > memory_threshold

\* the clean-up at the end of check_resource_alerts: of the pids that have a history,
\* those whose history is kept
kept_pids(pids, active_pids) == pids \cap active_pids

\* current_time - last_alert > self.alert_cooldown
cooled_down(current_time, last_alert) == current_time - last_alert > alert_cooldown

\* check_resource_alerts: alert_history[pid] with the pid initialised
history_of(history, pid) == IF pid \in DOMAIN history THEN history[pid] ELSE NeverAlerted

\* check_resource_alerts: the alerts it returns, as pairs of pid and type
returned_alerts(history, instances, current_time) ==
    { alert \in (DOMAIN instances) \X AlertTypes :
        /\ exceeds(instances[alert[1]], alert[2])
        /\ cooled_down(current_time, history_of(history, alert[1])[alert[2]]) }

\* check_resource_alerts: the alert_history it leaves
stamped_history(history, instances, current_time) ==
    [pid \in kept_pids(DOMAIN history \cup DOMAIN instances, DOMAIN instances) |->
        [type \in AlertTypes |->
            IF <<pid, type>> \in returned_alerts(history, instances, current_time)
            THEN current_time ELSE history_of(history, pid)[type]]]

AlertUnchanged ==
    UNCHANGED <<now, tz, projects, process_sessions, process_metrics, process_tree,
                active_sessions, project_cache, closeCount, firstId, last, coreVars, ioVars,
                perfVars, workerVars, discVars, alive>>

\* ClaudeMonitor.check_resource_alerts, alerts_enabled
CheckResourceAlerts ==
    \E S \in SUBSET Pids :
        \E instances \in [S -> Readings] :
            /\ alerts' = [given |-> instances,
                          returned |-> returned_alerts(alert_history, instances, alert_clock)]
            /\ alert_history' = stamped_history(alert_history, instances, alert_clock)
            /\ alert_log' = [pid \in Pids |-> [type \in AlertTypes |->
                                IF <<pid, type>> \in alerts'.returned THEN alert_clock
                                ELSE alert_log[pid][type]]]
            /\ UNCHANGED alert_clock
            /\ AlertUnchanged

\* time passes
AlertClock ==
    /\ alert_clock < StartOfAlerts + MaxAlertTicks * AlertTick
    /\ alert_clock' = alert_clock + AlertTick
    /\ UNCHANGED <<alert_history, alerts, alert_log>>
    /\ AlertUnchanged

NextAlerts == CheckResourceAlerts \/ AlertClock

SpecAlerts == Init /\ [][NextAlerts]_vars

-----------------------------------------------------------------------------
(* A run of ClaudeMonitorDB: processes start and end, and each poll cycle is the whole of
   ClaudeMonitorDB.find_claude_processes, the scan of the base class and then the
   sessions and metrics of the store.  The store does not fail here. *)

\* what a scan meets of a running process: it answers, or proc.status() is denied
RunOptions(pid) ==
    { [pid |-> pid, sys_status |-> sys_status, indicators |-> Quiet, sampling |-> "ok"] :
        sys_status \in {"sleeping", "denied"} }

\* psutil.process_iter over the running processes, in the order of their pids
RunTables(S) ==
    { [k \in 1..Cardinality(S) |-> f[SortedSeq(S)[k]]] :
        f \in { g \in [S -> UNION { RunOptions(pid) : pid \in S }] : \A p \in S : g[p].pid = p } }

\* the instances find_claude_processes of the base class returned, as the store part of
\* the poll cycle reads them
StoreInstances(found, wd, tr) ==
    [k \in 1..Len(found) |->
        [pid |-> found[k].pid,
         working_dir |-> IF found[k].pid \in DOMAIN wd THEN wd[found[k].pid] ELSE UnknownDir,
         tree |-> tr[found[k].pid]]]

RunUnchanged ==
    UNCHANGED <<now, tz, firstId, paused_pids, instance, perfVars, workerVars, discVars,
                alertVars>>

\* a process starts
ProcessStarts ==
    \E pid \in Pids \ alive :
        /\ alive' = alive \cup {pid}
        /\ UNCHANGED <<projects, process_sessions, process_metrics, process_tree,
                       active_sessions, project_cache, closeCount, last, cpu_histories,
                       appended, ioVars>>
        /\ RunUnchanged

\* a process ends
ProcessEnds ==
    \E pid \in alive :
        /\ alive' = alive \ {pid}
        /\ UNCHANGED <<projects, process_sessions, process_metrics, process_tree,
                       active_sessions, project_cache, closeCount, last, cpu_histories,
                       appended, ioVars>>
        /\ RunUnchanged

\* ClaudeMonitorDB.find_claude_processes: one poll cycle
PollCycle ==
    \E procs \in RunTables(alive) :
        /\ TotalLen(appended, Pids) + Len(procs) <= MaxScanned
        /\ \E r \in { core_find_claude_processes(
                          Monitor(cpu_histories, appended, io_tracker, io_totals),
                          paused_pids, procs) } :
             \E S \in {{ r.instances[k].pid : k \in 1..Len(r.instances) }} :
               \E wd \in [S \ ActivePids(active_sessions) -> PollDirs], tr \in [S -> {"none"}] :
                 \E order \in Orders(ActivePids(active_sessions) \ S) :
                   \E st \in { find_claude_processes(Start(0),
                                   StoreInstances(r.instances, wd, tr), order) } :
                      /\ Stored(st, MonitorCall(st, "poll", SortedSeq(S)))
                      /\ cpu_histories' = r.m.cpu_histories
                      /\ appended' = r.m.appended
                      /\ io_tracker' = r.m.io_tracker
                      /\ io_totals' = r.m.io_totals
                      /\ claude_processes' = r.instances
        /\ scan' = procs
        /\ UNCHANGED alive
        /\ RunUnchanged

NextRun == ProcessStarts \/ ProcessEnds \/ PollCycle

SpecRun == Init /\ [][NextRun]_vars

-----------------------------------------------------------------------------
(* Properties of the store and the monitor. *)

SeqRange(seq) == { seq[k] : k \in 1..Len(seq) }
SessionIds == { process_sessions[i].id : i \in 1..Len(process_sessions) }
ProjectIds == { projects[i].id : i \in 1..Len(projects) }

\* C1: in every reachable state the store holds at most one open Session (end time
\* null) per pid, whatever poll cycles, shutdowns and monitor restarts came before.
C1_AtMostOneOpenSessionPerPid ==
    \A i, j \in 1..Len(process_sessions) :
        ( /\ i # j
          /\ process_sessions[i].pid = process_sessions[j].pid
          /\ process_sessions[i].end_time = NULL )
        => process_sessions[j].end_time # NULL

\* C2: a poll cycle closes the Session of every pid of the active-session map that
\* its discovery result lacks, exactly once, and drops the pid from the map; and no
\* step ever closes a Session a second time.
C2_AbsentPidClosedOnce ==
    [][ /\ last'.op = "poll" =>
              \A k \in 1..Len(active_sessions) :
                  active_sessions[k].pid \notin SeqRange(last'.pids) =>
                      /\ closeCount'[active_sessions[k].sid] = closeCount[active_sessions[k].sid] + 1
                      /\ active_sessions[k].pid \notin ActivePids(active_sessions')
        /\ \A i \in 1..Len(closeCount') : closeCount'[i] <= 1 ]_vars

\* C3: closeSession on a Session that is already closed raises nothing and leaves the
\* Session's row (end time, duration, status) as the first close stamped it.
C3_CloseClosedIsNoop ==
    (last.op = "end_session" /\ ~last.raised) =>
        \A i \in 1..Len(last.before) :
            (last.before[i].id = last.arg /\ last.before[i].end_time # NULL)
            => process_sessions[i] = last.before[i]

\* C4: shutdown closes every Session of the active-session map exactly once, closes
\* no other Session, and leaves the map empty.
C4_ShutdownClosesAllOnce ==
    [][ last'.op = "shutdown" =>
          /\ active_sessions' = <<>>
          /\ \A i \in 1..Len(closeCount) :
                closeCount'[i] = closeCount[i] +
                    (IF \E k \in 1..Len(active_sessions) : active_sessions[k].sid = i
                     THEN 1 ELSE 0)
          /\ \A i \in 1..Len(closeCount') : closeCount'[i] <= 1 ]_vars

\* C5: openSession inserts exactly one new open Session when the pid has no open
\* Session, and when the pid has one it fails and leaves the store unchanged.
C5_OpenSessionRejectsDuplicate ==
    last.op = "start_session" =>
        IF HasOpenSession(last.before, last.arg)
        THEN last.raised /\ process_sessions = last.before
        ELSE ~last.raised =>
               /\ Len(process_sessions) = Len(last.before) + 1
               /\ SubSeq(process_sessions, 1, Len(last.before)) = last.before
               /\ process_sessions[Len(process_sessions)].pid = last.arg
               /\ process_sessions[Len(process_sessions)].end_time = NULL

\* C6: a persistence operation that fails during a poll cycle does not propagate out
\* of the cycle: the cycle completes and returns its instances.
C6_PollNeverRaises == last.op = "poll" => ~last.raised

\* C7: whenever a step closes a Session, the duration it stores is the close time
\* (the clock that stamped the start time, read at the close) minus the stored start
\* time, in whole seconds, and the end time it stores is not earlier than the stored
\* start time.
C7_DurationIsEndMinusStart ==
    [][ \A i \in 1..Len(process_sessions) :
          closeCount'[i] > closeCount[i] =>
             /\ process_sessions'[i].end_time # NULL
             /\ process_sessions'[i].duration_seconds =
                   IntTrunc(datetime_now(now', tz') - process_sessions'[i].start_time, TicksPerSec)
             /\ process_sessions'[i].end_time >= process_sessions'[i].start_time ]_vars

\* C8: every MetricSample row and every ProcessTreeSnapshot row references an existing
\* Session, and every Session references an existing Project.
C8_ReferentialIntegrity ==
    /\ \A i \in 1..Len(process_metrics) : process_metrics[i].session_id \in SessionIds
    /\ \A i \in 1..Len(process_tree) : process_tree[i].session_id \in SessionIds
    /\ \A i \in 1..Len(process_sessions) : process_sessions[i].project_id \in ProjectIds

\* C8 witness: a cleanup has run; samples and tree rows remain, and some Session has
\* no sample left.
C8_Witness ==
    /\ last.op = "cleanup" /\ ~last.raised
    /\ process_metrics # <<>>
    /\ process_tree # <<>>
    /\ \E i \in 1..Len(process_sessions) :
          \A k \in 1..Len(process_metrics) :
              process_metrics[k].session_id # process_sessions[i].id

\* C9: a poll cycle appends exactly one MetricSample per discovered instance, in the
\* order of the instances, each to the Session open for its pid; a Session's samples
\* carry non-decreasing timestamps.
C9_OneSamplePerInstance ==
    [][ last'.op = "poll" =>
          /\ Len(process_metrics') = Len(process_metrics) + Len(last'.pids)
          /\ \A k \in 1..Len(last'.pids) :
                /\ last'.pids[k] \in ActivePids(active_sessions')
                /\ process_metrics'[Len(process_metrics) + k].session_id
                      = SidOf(active_sessions', last'.pids[k])
                /\ \A i \in 1..Len(process_sessions') :
                      process_sessions'[i].id = SidOf(active_sessions', last'.pids[k])
                      => process_sessions'[i].end_time = NULL
          /\ \A i, j \in 1..Len(process_metrics') :
                (i < j /\ process_metrics'[i].session_id = process_metrics'[j].session_id)
                => process_metrics'[i].timestamp <= process_metrics'[j].timestamp ]_vars

\* C10: every successful resolution of a working directory returns the id its first
\* resolution returned, and no two Project rows share a path or a name.
C10_ResolveProjectIdempotent ==
    /\ \A i, j \in 1..Len(projects) :
          i # j => /\ projects[i].path # projects[j].path
                   /\ projects[i].name # projects[j].name
    /\ (last.op = "get_or_create_project" /\ ~last.raised) => last.ret = firstId[last.arg]

\* C10 witness: a working directory that normalises to 'Unknown' is resolved again, at
\* a later time than its Project was created, with another Project in the store.
C10_Witness ==
    /\ last.op = "get_or_create_project" /\ ~last.raised
    /\ last.arg = EmptyDir
    /\ Len(projects) >= 2
    /\ \E i \in 1..Len(projects) :
          /\ projects[i].id = last.ret
          /\ projects[i].path = UnknownDir
          /\ projects[i].last_seen > projects[i].created_at

\* C11: a Project's identity is its working-directory path: two resolved working
\* directories have the same Project exactly when they are the same (normalised) path.
C11_ProjectIdentityIsPath ==
    \A a, b \in Dirs :
        (firstId[a] # 0 /\ firstId[b] # 0) =>
            (firstId[a] = firstId[b] <=> project_path(a) = project_path(b))

\* C12: every poll cycle that completes sets last_seen of the Project of every
\* discovered instance to the time of that cycle.
C12_LastSeenOnEverySighting ==
    [][ (last'.op = "poll" /\ ~last'.raised) =>
          \A k \in 1..Len(last'.pids) :
              \A i \in 1..Len(process_sessions'), j \in 1..Len(projects') :
                  ( /\ process_sessions'[i].id = SidOf(active_sessions', last'.pids[k])
                    /\ projects'[j].id = process_sessions'[i].project_id )
                  => projects'[j].last_seen = CURRENT_TIMESTAMP(now') ]_vars

\* the nodes stored for a session, in insertion order
SnapshotOf(session_id) ==
    LET rows == SelectSeq(process_tree, LAMBDA r : r.session_id = session_id)
    IN [k \in 1..Len(rows) |-> ProcessNode(rows[k].pid, rows[k].parent_pid, <<>>)]

\* C13: recordTree(sessionId, nodes) replaces: after a call that completes, the tree
\* rows stored for that Session are exactly the given nodes.
C13_RecordTreeReplaces ==
    (last.op = "record_process_tree" /\ ~last.raised) =>
        SnapshotOf(last.arg) = flatten_children(last.nodes, 1)

\* C14: in every persisted tree the row of the monitored pid (the root) has depth 0 and
\* a null parent, and every other row has the depth of its parent's row plus 1.
C14_DepthIsParentDepthPlusOne ==
    \A k \in 1..Len(process_tree) :
        LET r == process_tree[k]
        IN IF \E i \in 1..Len(process_sessions) :
                 process_sessions[i].id = r.session_id /\ process_sessions[i].pid = r.pid
           THEN r.depth = 0 /\ r.parent_pid = NULL
           ELSE \E j \in 1..Len(process_tree) :
                   /\ process_tree[j].session_id = r.session_id
                   /\ process_tree[j].timestamp = r.timestamp
                   /\ process_tree[j].pid = r.parent_pid
                   /\ r.depth = process_tree[j].depth + 1

\* C15: cleanup(N) deletes exactly the MetricSample and ProcessTreeSnapshot rows whose
\* timestamp is older than N days before now and leaves every other sample and tree
\* row and every Session and Project row unchanged.
C15_CleanupDeletesExactlyOld ==
    [][ (last'.op = "cleanup" /\ ~last'.raised) =>
          LET old(r) == r.timestamp < CURRENT_TIMESTAMP(now') - last'.arg * SecsPerDay * TicksPerSec
          IN /\ process_metrics' = SelectSeq(process_metrics, LAMBDA r : ~old(r))
             /\ process_tree' = SelectSeq(process_tree, LAMBDA r : ~old(r))
             /\ process_sessions' = process_sessions
             /\ projects' = projects ]_vars

\* C15 witness: a cleanup of 0 days has run a second after a poll cycle: the one sample
\* left is of the current second, and a Session has lost its samples.
C15_Witness ==
    /\ last.op = "cleanup" /\ ~last.raised /\ last.arg = 0
    /\ Len(process_metrics) = 1
    /\ process_metrics[1].timestamp = CURRENT_TIMESTAMP(now)
    /\ process_sessions # <<>>
    /\ \E i \in 1..Len(process_sessions) :
          process_sessions[i].id # process_metrics[1].session_id

\* the process of the last result is neither manually paused nor stopped
NotPaused == instance.pid \notin paused_pids /\ instance.sys_status = "sleeping"

\* C16: whenever the pid is in the manual-pause set or the OS reports the process
\* stopped, the classifier returns paused, for every CPU history.
C16_PauseTakesPrecedence ==
    (instance.pid # 0 /\ (instance.pid \in paused_pids \/ instance.sys_status = "stopped"))
    => instance.status = "paused"

\* C16 witness: a process the OS reports stopped, not manually paused, whose 5-sample
\* history has a mean above 5.0, is classified paused.
C16_Witness ==
    /\ instance.status = "paused"
    /\ instance.pid \notin paused_pids
    /\ instance.sys_status = "stopped"
    /\ Len(instance.cpu_history) = maxlen
    /\ Sum(instance.cpu_history) > 50 * maxlen

\* C17: a process that is not paused and whose history has at least 3 samples with a
\* mean above 5.0 is classified running.
C17_HighAverageIsRunning ==
    ( /\ instance.pid # 0 /\ NotPaused
      /\ Len(instance.cpu_history) >= 3
      /\ Sum(instance.cpu_history) > 50 * Len(instance.cpu_history) )
    => instance.status = "running"

\* C17 witness: mean above 5.0 although the last three samples are all zero after
\* earlier activity.
C17_Witness ==
    /\ instance.pid # 0 /\ NotPaused
    /\ instance.status = "running"
    /\ instance.cpu_history = <<200, 200, 0, 0, 0>>

C19_OtherwiseIsMediumAverage ==
    (instance.pid # 0 /\ NotPaused /\ Len(instance.cpu_history) >= 3) =>
        LET h == instance.cpu_history
            n == Len(h)
        IN /\ (~(Sum(h) > 50 * n) /\ ~(h[n - 2] + h[n - 1] + h[n] < 5 * 3)) =>
                /\ 5 * n <= Sum(h) /\ Sum(h) <= 50 * n
                /\ instance.status = "running"
           /\ Sum(h) < 5 * n => instance.status # "running"

\* C20: each pid's CPU history holds at most 5 samples, and they are the most recently
\* appended samples of the pid, in arrival order.
C20_HistoryIsLastFive ==
    \A p \in Pids :
        /\ Len(cpu_histories[p]) <= 5
        /\ \A k \in 1..Len(cpu_histories[p]) :
              cpu_histories[p][k] =
                  appended[p][Len(appended[p]) - Len(cpu_histories[p]) + k]
        /\ Len(cpu_histories[p]) = IF Len(appended[p]) < 5 THEN Len(appended[p]) ELSE 5

\* C20 witness: a sixth sample has arrived for a pid whose first two samples differ.
C20_Witness ==
    \E p \in Pids :
        /\ Len(appended[p]) = 6
        /\ appended[p][1] # appended[p][2]

-----------------------------------------------------------------------------
(* Properties of the synthetic I/O statistics and of the scan. *)

\* the instance the last scan returned for pid, if any
InstancesOf(found, pid) == { found[k] : k \in { j \in 1..Len(found) : found[j].pid = pid } }

\* what the last scan met of pid, if anything
ScannedAs(procs, pid) == { procs[k] : k \in { j \in 1..Len(procs) : procs[j].pid = pid } }

\* C21: on the first scan in which a pid is sighted (its only CPU sample so far is the
\* one of this scan) its instance reports zero cumulative and zero per-cycle network
\* and disk bytes.
C21_FirstSightingReportsZeroIO ==
    \A pid \in Pids : \A i \in InstancesOf(claude_processes, pid) :
        Len(appended[pid]) = 1 =>
            /\ i.io.net_bytes_sent = 0
            /\ i.io.net_bytes_recv = 0
            /\ i.io.net_bytes_total = 0
            /\ i.io.disk_total_bytes = 0
            /\ i.io.disk_current_bytes = 0

\* a busy process with an open connection was sighted for the first time, and its
\* indicators were read
C21_Witness ==
    \E pid \in Pids : \E i \in InstancesOf(claude_processes, pid) :
        /\ Len(appended[pid]) = 1
        /\ \E proc \in ScannedAs(scan, pid) : proc.indicators = Busy /\ proc.sampling = "ok"
        /\ i.io.connections_count = 1
        /\ io_tracker[pid] = Busy

\* C22: from one scan to the next the cumulative network total and the cumulative disk
\* total on the instance of a pid never decrease, also when reading the indicators of
\* that pid was denied in one of the scans.
C22_TotalsNeverDecrease ==
    [][\A pid \in Pids :
          \A i \in InstancesOf(claude_processes, pid), j \in InstancesOf(claude_processes', pid) :
              /\ j.io.net_bytes_total >= i.io.net_bytes_total
              /\ j.io.disk_total_bytes >= i.io.disk_total_bytes]_vars

\* the instances of the pids other than pid, in the order they were returned
OthersOf(found, pid) == SelectSeq(found, LAMBDA i : i.pid # pid)

\* the scans that differ from procs in what happens to its k-th process only: any other
\* outcome of sampling it, or the process not being there at all
Alternatives(procs, k) ==
    { [procs EXCEPT ![k] = o] : o \in { x \in ScanOptions : x.pid = procs[k].pid } }
    \cup { SubSeq(procs, 1, k - 1) \o SubSeq(procs, k + 1, Len(procs)) }

\* C23: an access error or a vanishing while one pid is sampled does not abort the scan
\* and does not change whether, or with what values, any other pid appears in its
\* result: the other instances are those of the scan in which that pid was sampled with
\* any other outcome, or was not met.
C23_SamplingErrorIsLocal ==
    [][appended' # appended =>
          \A k \in 1..Len(scan') : \A procs \in Alternatives(scan', k) :
              OthersOf(claude_processes', scan'[k].pid)
              = OthersOf(core_find_claude_processes(
                             Monitor(cpu_histories, appended, io_tracker, io_totals),
                             paused_pids, procs).instances,
                         scan'[k].pid)]_vars

\* a scan in which one process was gone when its status was asked for, or its indicators
\* could not be read, and a process met after it is in the result
C23_Witness ==
    /\ Len(scan) = 2
    /\ scan[1].sys_status = "gone" \/ scan[1].sampling = "denied"
    /\ InstancesOf(claude_processes, scan[1].pid) = {} \/ scan[1].sampling = "denied"
    /\ InstancesOf(claude_processes, scan[2].pid) # {}
    /\ scan[1].pid \notin paused_pids

\* C24: after a scan that does not meet a pid sampled by an earlier scan, the monitor
\* holds no CPU history, no indicators and no running I/O totals for that pid.
C24_AbsentPidIsForgotten ==
    \A pid \in Pids :
        (appended[pid] # <<>> /\ ScannedAs(scan, pid) = {}) =>
            /\ cpu_histories[pid] = <<>>
            /\ pid \notin DOMAIN io_tracker
            /\ pid \notin DOMAIN io_totals

-----------------------------------------------------------------------------
(* Properties of the optimizer. *)

\* C25: in every reachable state min_update_interval <= adaptive_update_interval <=
\* max_update_interval (0.1 s and 5.0 s), whatever update times were measured and
\* whatever idle times were reported.
C25_IntervalWithinLimits ==
    /\ min_update_interval <= adaptive_update_interval
    /\ adaptive_update_interval <= max_update_interval

\* an idle time above 30 s was reported when the interval was below the maximum and
\* more than two thirds of it: the interval is the maximum
C25_Witness ==
    /\ reply.op = "reduce_update_frequency_on_idle"
    /\ reply.last < max_update_interval
    /\ reply.last * 3 > max_update_interval * 2
    /\ adaptive_update_interval = max_update_interval

\* a step of measure_update_time
Measured == calls' # calls /\ reply'.op = "measure_update_time"

\* the history after the update time d is recorded in it
Recorded(d) == LastN(Append(update_times, d), 100)

\* C26: measure_update_time appends the update time to a history of at most 100
\* entries, and then multiplies the interval by 1.2 (at most the maximum) whenever the
\* average of the history exceeds 0.5 s, multiplies it by 0.9 (at least the minimum)
\* whenever the average is below 0.1 s, and leaves it unchanged otherwise.
C26_AdjustsOnAverage ==
    [][Measured =>
          /\ Len(update_times') <= 100
          /\ \E d \in Durations : update_times' = Recorded(d)
          /\ adaptive_update_interval'
               = IF Sum(update_times') > 500000 * Len(update_times')
                 THEN Min((adaptive_update_interval * 12) \div 10, 5000000)
                 ELSE IF Sum(update_times') < 100000 * Len(update_times')
                 THEN Max((adaptive_update_interval * 9) \div 10, 100000)
                 ELSE adaptive_update_interval]_vars

\* C26, amended: the same, once the history holds at least 5 entries; while it holds
\* fewer the interval is left unchanged, whatever the average.
C26_AdjustsOnAverageOfFive ==
    [][Measured =>
          /\ Len(update_times') <= 100
          /\ \E d \in Durations : update_times' = Recorded(d)
          /\ adaptive_update_interval'
               = IF Len(update_times') < 5 THEN adaptive_update_interval
                 ELSE IF Sum(update_times') > 500000 * Len(update_times')
                 THEN Min((adaptive_update_interval * 12) \div 10, 5000000)
                 ELSE IF Sum(update_times') < 100000 * Len(update_times')
                 THEN Max((adaptive_update_interval * 9) \div 10, 100000)
                 ELSE adaptive_update_interval]_vars

\* an update time was recorded, the history holds its 100 entries, of slow updates, and
\* the interval has grown
C26_Witness ==
    /\ reply.op = "measure_update_time"
    /\ Len(update_times) = 100
    /\ adaptive_update_interval > reply.last

\* a step of should_update
Asked(priority) ==
    calls' # calls /\ reply'.op = "should_update" /\ reply'.priority = priority

\* C27: should_update('critical') returns True whenever at least 0.1 s has passed since
\* it last returned True, whatever is_throttled and the adaptive interval are.
C27_CriticalIsNeverSuppressed ==
    [][(/\ Asked("critical")
        /\ last_fired["critical"] # 0
        /\ clock - last_fired["critical"] >= 100000) => reply'.fired]_vars

\* the interval C28 gives a priority other than critical
StatedInterval(priority) ==
    IF is_throttled /\ priority \in {"low", "background"}
    THEN 2 * Max(update_priorities(priority), adaptive_update_interval)
    ELSE Max(update_priorities(priority), adaptive_update_interval)

\* C28: while is_throttled, should_update makes 'low' and 'background' wait twice
\* max(base, adaptive interval), the interval they wait otherwise, and makes 'high' and
\* 'medium' wait max(base, adaptive interval) whether is_throttled or not.
C28_ThrottlingDoublesLowAndBackground ==
    [][\A priority \in {"high", "medium", "low", "background"} :
          Asked(priority) =>
              reply'.fired = (clock - reply'.last >= StatedInterval(priority))]_vars

\* while the system is throttled 'low' was refused after its interval and before twice
\* its interval
C28_Witness ==
    /\ reply.op = "should_update"
    /\ reply.priority = "low"
    /\ is_throttled
    /\ ~reply.fired
    /\ reply.last # 0
    /\ clock - reply.last >= Max(update_priorities("low"), adaptive_update_interval)

\* a step of cache_get
Got == calls' # calls /\ reply'.op = "cache_get"

\* C29: cache_get(key) returns the value of the last cache_set(key) if and only if less
\* than 2 s have passed since that cache_set and no cache_clear has removed the key
\* since; otherwise it returns None.
C29_GetWithinTtlOfSet ==
    [][Got =>
          reply'.value
            = IF /\ reply'.key \in DOMAIN set_log
                 /\ ~set_log[reply'.key].cleared
                 /\ clock - set_log[reply'.key].at < 2000000
              THEN set_log[reply'.key].value
              ELSE "None"]_vars

\* the key begins with the prefix
BeginsWith(key, prefix) ==
    Len(prefix) <= Len(key) /\ SubSeq(key, 1, Len(prefix)) = prefix

\* what is left of the cache after the keys in gone: the other entries with their values
\* and their timestamps
LeavesAllBut(gone) ==
    /\ DOMAIN cache' = DOMAIN cache \ gone
    /\ \A k \in DOMAIN cache' :
          /\ cache'[k] = cache[k]
          /\ k \in DOMAIN cache_timestamps'
          /\ cache_timestamps'[k] = cache_timestamps[k]

\* C30: cache_clear(pattern) removes exactly the entries whose key begins with the
\* pattern and leaves every other entry, value and timestamp, unchanged; cache_clear()
\* empties the cache.
C30_ClearRemovesPrefixed ==
    [][/\ (calls' # calls /\ reply'.op = "cache_clear_pattern") =>
              LeavesAllBut({ k \in DOMAIN cache : BeginsWith(k, reply'.key) })
       /\ (calls' # calls /\ reply'.op = "cache_clear") => DOMAIN cache' = {}]_vars

\* C30, amended: cache_clear(pattern) removes exactly the entries whose key contains the
\* pattern, anywhere in it, and leaves every other entry, value and timestamp,
\* unchanged; cache_clear() empties the cache.
C30_ClearRemovesContaining ==
    [][/\ (calls' # calls /\ reply'.op = "cache_clear_pattern") =>
              LeavesAllBut({ k \in DOMAIN cache :
                               \E i \in 1..Len(k) : \E j \in i..Len(k) :
                                   SubSeq(k, i, j) = reply'.key })
       /\ (calls' # calls /\ reply'.op = "cache_clear") => DOMAIN cache' = {}]_vars

\* both keys were in the cache when the pattern "b" was cleared: the key that contains
\* it is gone and the other one is still there
C30_Witness ==
    /\ reply.op = "cache_clear_pattern"
    /\ reply.key = <<"b">>
    /\ <<"b", "a">> \in DOMAIN set_log
    /\ set_log[<<"b", "a">>].cleared
    /\ <<"b", "a">> \notin DOMAIN cache
    /\ last_update_key("critical") \in DOMAIN cache

\* the interval the scheduler states for a priority
IntervalOf(priority) ==
    IF priority = "critical" THEN 100000 ELSE StatedInterval(priority)

\* C37: two consecutive True returns of should_update(p) are at least p's effective
\* interval apart, whatever cache operations (cache_set, cache_clear, memory_cleanup)
\* come between them: no cache operation changes the time a priority last fired, and
\* firing one priority changes no other priority's.
C37_FiringsAreAnIntervalApart ==
    [][/\ \A priority \in Priorities :
              (Asked(priority) /\ reply'.fired /\ last_fired[priority] # 0) =>
                  clock - last_fired[priority] >= IntervalOf(priority)
       /\ \A priority \in Priorities :
              (calls' # calls /\ ~Asked(priority)) =>
                  last_update_of(cache_timestamps', priority)
                  = last_update_of(cache_timestamps, priority)]_vars


-----------------------------------------------------------------------------
(* Properties of the background processing. *)

IsPrefix(s, t) == Len(s) <= Len(t) /\ SubSeq(t, 1, Len(s)) = s

Alive == {w \in 1..Len(threads) : is_alive(threads[w])}

\* the step is a call of start_background_processing
StartCalled == wcalls' # wcalls /\ added' = added /\ control' = "start"

\* the step is a call of stop_background_processing
StopCalled == wcalls' # wcalls /\ added' = added /\ control' \in {"stopping", "stop"}

\* the step is the end of a task that raised
Raised(w) == w \in 1..Len(threads) /\ threads[w].pc = "except" /\ threads' # threads

\* C31: the tasks are run in the order they were queued, each at most once; a task that
\* raised is removed from the queue, and the worker goes on with the tasks after it
C31_FifoAtMostOnce ==
    [][/\ IsPrefix(executed', added')
       /\ \A w \in 1..MaxThreads :
              Raised(w) => /\ background_tasks' = Tail(background_tasks)
                           /\ threads'[w].pc = "for"]_vars

\* a task raised, was dropped, and the task queued after it was run
C31_Witness ==
    /\ Len(executed) >= 2
    /\ executed[1] = "failing"
    /\ IsPrefix(executed, added)

\* C32: at most one worker thread is alive; start while a worker is alive makes no
\* thread; stop with no worker alive changes nothing
C32_StartStopIdempotent ==
    [][/\ Cardinality(Alive') <= 1
       /\ (StartCalled /\ Alive # {}) => threads' = threads
       /\ (StopCalled /\ Alive = {}) =>
              /\ UNCHANGED <<background_tasks, background_running, background_thread,
                             threads, joining>>]_vars

\* two calls were made, none of them add_background_task and the last a start: a start
\* while the worker was alive or a stop while there was none came before; one thread
\* was made and is alive
C32_Witness ==
    /\ wcalls = 2
    /\ added = <<>>
    /\ control = "start"
    /\ Len(threads) = 1
    /\ Cardinality(Alive) = 1

\* C38: once start is the last call, a worker is running and each queued task is
\* eventually run
C38_RunsAfterLastStart ==
    \A n \in 0..(MaxAdds - 1) :
        (control = "start" /\ Len(added) > n /\ Len(executed) = n)
            ~> (control # "start" \/ Len(executed) > n)

\* what was added is what was run followed by what is queued, the task a worker has
\* run and not yet removed being still in the queue
Conserved ==
    \E pending \in {Cardinality({w \in 1..Len(threads) :
                                    threads[w].pc \in {"remove", "except"}})} :
        /\ pending <= Len(executed)
        /\ added = SubSeq(executed, 1, Len(executed) - pending) \o background_tasks

\* C39: however the calls of add_background_task interleave with the worker, no task is
\* lost and none is run twice, and while background processing is on each task is run
C39_NoTaskLostOrRunTwice ==
    /\ []Conserved
    /\ \A n \in 0..(MaxAdds - 1) :
           (Len(added) > n /\ Len(executed) = n)
               ~> (~background_running \/ Len(executed) > n)

\* a task was added while the worker was between running a task and removing it, and
\* all tasks have been run
C39_Witness ==
    /\ Len(added) = MaxAdds
    /\ executed = added
    /\ background_tasks = <<>>
    /\ background_running

-----------------------------------------------------------------------------
(* Properties of the discovery. *)

\* the pids of the instances the last discovery returned
Discovered == { claude_processes[k].pid : k \in 1..Len(claude_processes) }

\* the text of the command line of the k-th process of the table
CommandOf(k) == join(snapshot[k].cmdline)

C35_DockerOnlyIfAllowed ==
    \A k \in 1..Len(snapshot) :
        (/\ snapshot[k].pid \in Discovered
         /\ Contains(docker, CommandOf(k))) => Contains(mcp_filesystem, CommandOf(k))

-----------------------------------------------------------------------------
(* Properties of the controls. *)

\* C36: no control raises; pause_resume_process changes the membership of the pid in
\* paused_pids exactly when the signal was sent, and returns an error and leaves the set
\* alone when it was not; kill_process returns an error or a message, never both
C36_ErrorsAreReturned ==
    [][/\ ~outcome'.raised
       /\ outcome'.op = "pause_resume" =>
              IF outcome'.sent
              THEN /\ outcome'.error = "None"
                   /\ (outcome'.pid \in paused_pids') # (outcome'.pid \in paused_pids)
                   /\ paused_pids' \ {outcome'.pid} = paused_pids \ {outcome'.pid}
              ELSE /\ outcome'.error # "None"
                   /\ paused_pids' = paused_pids
       /\ outcome'.op = "kill" =>
              /\ (outcome'.error = "None") # (outcome'.message = "None")
              /\ ~outcome'.sent => outcome'.error # "None"
              /\ paused_pids' = paused_pids]_vars

\* a process was paused, and then killing it was denied
C36_Witness ==
    /\ paused_pids # {}
    /\ outcome.op = "kill"
    /\ outcome.error = "Access denied to process"

-----------------------------------------------------------------------------
(* Properties of the alerts. *)

\* the step is a check_resource_alerts
Checked == alert_clock' = alert_clock

\* C33: a check returns no alert of a type for a pid less than the cooldown after it
\* returned one, and returns one when more than the cooldown has passed and the value
\* exceeds the threshold; each type has its own cooldown
C33_AlertsAreRateLimited ==
    [][\A pid \in Pids, type \in AlertTypes :
           (Checked /\ alert_log[pid][type] # 0) =>
               /\ <<pid, type>> \in alerts'.returned =>
                      alert_clock - alert_log[pid][type] >= alert_cooldown
               /\ (/\ pid \in DOMAIN alerts'.given
                   /\ exceeds(alerts'.given[pid], type)
                   /\ alert_clock - alert_log[pid][type] > alert_cooldown) =>
                      <<pid, type>> \in alerts'.returned]_vars

-----------------------------------------------------------------------------
(* Properties of a run. *)

\* C40: the session of a process that keeps running is never ended, whatever a poll
\* cycle could read of the process
C40_OneSessionWhileAlive ==
    [][\A pid \in alive \cap alive' :
           pid \in ActivePids(active_sessions) =>
               /\ pid \in ActivePids(active_sessions')
               /\ SidOf(active_sessions', pid) = SidOf(active_sessions, pid)
               /\ HasOpenSession(process_sessions', pid)]_vars

====
